---- MODULE Spec2Model ----
(***************************************************************************)
(* A model of arcparse: a declared shape (a class with typed attributes)   *)
(* is resolved into a Parser, and Parser.parse drives the token engine and *)
(* reconstructs a typed object from the flat parsed mapping.               *)
(*                                                                         *)
(* Python values are records [tag, items]; ordered dicts are sequences of  *)
(* [k, v] records; a typehint is [origin, args] with one wrapper layer.    *)
(***************************************************************************)
EXTENDS Naturals, Sequences, FiniteSets, TLC

VARIABLES
    shape,      \* the declared shape handed to arcparser()
    pc,         \* position in arcparser() / Parser.parse()
    parser,     \* the Parser built by _make_parser
    tokens,     \* the argument vector of the current parse() call
    parsed,     \* the flat parsed mapping (dest -> value)
    frames,     \* the active _construct_object_with_parsed calls, outermost first
    evaluated,  \* history: the constraints validate_with evaluated, in order
    objs,       \* the objects instantiated so far, the latest first
    written,    \* the classes resolution wrote inferred fields back into, by name
    returned,   \* how the first parse() call on this Parser ended, <<>> before
    error       \* the exception that ended arcparser() or parse(), "" if none

vars == <<shape, pc, parser, tokens, parsed, frames, evaluated, objs, written, returned, error>>

-----------------------------------------------------------------------------
(* Python values *)

None == [tag |-> "None", items |-> <<>>]

void == [tag |-> "void", items |-> <<>>]

Str(s) == [tag |-> "str", items |-> <<s>>]

Bool(b) == [tag |-> "bool", items |-> <<IF b THEN "True" ELSE "False">>]

StrList(items) == [tag |-> "list[str]", items |-> items]

Inst(cls) == [tag |-> "inst", items |-> <<cls>>]

True == Bool(TRUE)

False == Bool(FALSE)

\* bool(value): Python truthiness
Truthy(v) ==
    CASE v.tag = "None" -> FALSE
      [] v.tag = "bool" -> v = True
      [] v.tag = "str" -> v.items[1] # ""
      [] v.tag \in {"void", "inst"} -> TRUE
      [] OTHER -> Len(v.items) > 0

IsStr(v) == v.tag = "str"

-----------------------------------------------------------------------------
(* Ordered dicts: sequences of [k, v] *)

DictKeys(d) == {d[i].k : i \in 1..Len(d)}

DictHas(d, key) == key \in DictKeys(d)

DictGet(d, key) == d[CHOOSE i \in 1..Len(d) : d[i].k = key].v

DictSet(d, key, val) ==
    IF DictHas(d, key)
    THEN [i \in 1..Len(d) |-> IF d[i].k = key THEN [k |-> key, v |-> val] ELSE d[i]]
    ELSE Append(d, [k |-> key, v |-> val])

RECURSIVE DictUpdate(_, _)
\* d.update(e)
DictUpdate(d, e) ==
    IF e = <<>> THEN d
    ELSE DictUpdate(DictSet(d, Head(e).k, Head(e).v), Tail(e))

RECURSIVE DictDel(_, _)
DictDel(d, key) ==
    IF d = <<>> THEN <<>>
    ELSE IF Head(d).k = key THEN DictDel(Tail(d), key)
    ELSE <<Head(d)>> \o DictDel(Tail(d), key)

SeqToSet(s) == {s[i] : i \in 1..Len(s)}

-----------------------------------------------------------------------------
(* Typehints *)

NoType == ""

NoTypehint == [origin |-> "", args |-> <<>>]

Plain(t) == [origin |-> "type", args |-> <<t>>]

Union(args) == [origin |-> "Union", args |-> args]

ListOf(t) == [origin |-> "list", args |-> <<t>>]

Literal(args) == [origin |-> "Literal", args |-> args]

\* the bare type of an unwrapped typehint
\* a literal or an unsupported union stands for itself
BareOf(typehint) ==
    IF typehint.origin = "type" THEN typehint.args[1] ELSE typehint.origin

extract_optional_type(typehint) ==
    IF typehint.origin = "Union" /\ Len(typehint.args) = 2
    THEN IF typehint.args[1] = "NoneType" THEN typehint.args[2]
         ELSE IF typehint.args[2] = "NoneType" THEN typehint.args[1]
         ELSE NoType
    ELSE NoType

extract_collection_type(typehint) ==
    IF typehint.origin = "list" THEN typehint.args[1] ELSE NoType

\* [err, types]: raises InvalidTypehint unless the typehint is a union
extract_subparsers_from_typehint(typehint) ==
    IF typehint.origin = "Union"
    THEN [err |-> "", types |-> typehint.args]
    ELSE [err |-> "InvalidTypehint", types |-> <<>>]

\* a type name is truthy unless it is Python None; NoneType itself is truthy
extract_type_from_typehint(typehint) ==
    IF extract_optional_type(typehint) # NoType THEN extract_optional_type(typehint)
    ELSE IF extract_collection_type(typehint) # NoType THEN extract_collection_type(typehint)
    ELSE BareOf(typehint)

union_contains_none(typehint) ==
    typehint.origin = "Union" /\ "NoneType" \in SeqToSet(typehint.args)

extract_literal_strings(typehint) ==
    IF typehint.origin = "Literal" THEN typehint.args ELSE <<>>

-----------------------------------------------------------------------------
(* The types the shapes use *)

\* typing.Protocol classes (_is_protocol)
ProtocolTypes == {"Action"}

\* enum.StrEnum classes and their members
StrEnumTypes == {"Color"}

EnumMembers(t) == IF t = "Color" THEN <<"red", "green">> ELSE <<>>

\* int(s) raises ValueError unless s is a numeral
ConverterAccepts(fn, s) == fn # "int" \/ s \in {"1", "2"}

-----------------------------------------------------------------------------
(* Converters: converters.py *)

NoConverter == [fn |-> "", itemwise |-> FALSE]

Converter(fn) == [fn |-> fn, itemwise |-> FALSE]

itemwise(fn) == [fn |-> fn, itemwise |-> TRUE]

Choices(items) == [tag |-> "choices", items |-> items]

-----------------------------------------------------------------------------
(* Partial (user-authored) descriptors: _partial_arguments.py,             *)
(* built by the helpers of _argument_helpers.py                            *)

\* mx_group=None
NoGroup == [id |-> "", required |-> FALSE]

mx_group(id, required) == [id |-> id, required |-> required]

\* the class-body value of an attribute: cls "void" when the class body
\* assigns nothing, cls "value" for a bare default
PartialBase(cls) ==
    [cls |-> cls, default |-> void, mx_group |-> NoGroup,
     converter |-> NoConverter, choices |-> None, name_override |-> "",
     at_least_one |-> FALSE, append |-> FALSE, short |-> "",
     short_only |-> FALSE, no_flag |-> FALSE, names |-> <<>>, shapes |-> <<>>]

Unassigned == PartialBase("void")

BareDefault(value) == [PartialBase("value") EXCEPT !.default = value]

PartialPositional == PartialBase("PartialPositional")

PartialOption == PartialBase("PartialOption")

PartialFlag == PartialBase("PartialFlag")

PartialTriFlag == PartialBase("PartialTriFlag")

\* subparsers(*names) and subparsers(**{name: shape})
PartialSubparsers(names, shapes) ==
    [PartialBase("PartialSubparsers") EXCEPT !.names = names, !.shapes = shapes]

IsPartialArgument(value) ==
    value.cls \in {"PartialPositional", "PartialOption", "PartialFlag", "PartialTriFlag"}

-----------------------------------------------------------------------------
(* Resolved descriptors: the keyword arguments _partial_arguments.py hands *)
(* to Option, Positional, Flag and TriFlag; a keyword that is not passed   *)
(* keeps its unset value                                                   *)

ArgBase(cls) ==
    [cls |-> cls, name |-> "", dest |-> "", default |-> void,
     optional |-> FALSE, converter |-> NoConverter, choices |-> None,
     nargs |-> "", append |-> FALSE, short |-> "", short_only |-> FALSE,
     no_flag |-> FALSE]

IsValueArgument(arg) == arg.cls \in {"Option", "Positional"}

Raise(err, self) == [err |-> err, arg |-> ArgBase(""), self |-> self]

Return(arg, self) == [err |-> "", arg |-> arg, self |-> self]

-----------------------------------------------------------------------------
(* _argument_helpers.py: a short form is the sequence of its characters    *)

RECURSIVE Join(_)
Join(chars) == IF chars = <<>> THEN "" ELSE Head(chars) \o Join(Tail(chars))

\* re.match(r"^-[^-]+$", short)
_check_short_format(short) ==
    /\ Len(short) >= 2
    /\ short[1] = "-"
    /\ \A i \in 2..Len(short) : short[i] # "-"

\* the keyword arguments the helpers are called with; short=None is <<>>,
\* name_override=None is ""
Call(helper, short, short_only, name_override) ==
    [helper |-> helper, short |-> short, short_only |-> short_only,
     name_override |-> name_override]

\* option(short, short_only=..., name_override=...)
option(kw) ==
    IF kw.short # <<>> /\ ~_check_short_format(kw.short) THEN Raise("InvalidArgument", Unassigned)
    ELSE IF kw.short_only /\ kw.name_override # "" THEN Raise("InvalidArgument", Unassigned)
    ELSE Return(ArgBase(""),
                [PartialOption EXCEPT !.short = Join(kw.short),
                                      !.short_only = kw.short_only,
                                      !.name_override = kw.name_override])

\* flag(short, short_only=...)
flag(kw) ==
    IF kw.short # <<>> /\ ~_check_short_format(kw.short) THEN Raise("InvalidArgument", Unassigned)
    ELSE Return(ArgBase(""),
                [PartialFlag EXCEPT !.short = Join(kw.short),
                                    !.short_only = kw.short_only])

-----------------------------------------------------------------------------
(* _partial_arguments.py: resolution *)

\* an inference that does not look whether the descriptor already holds a
\* converter: a converter found on a collection is wrapped itemwise again
InferConverterRewrap(self, typehint, type_) ==
    IF type_ = "str" \/ type_ = "Literal" THEN self
    ELSE IF extract_collection_type(typehint) # NoType
    THEN [self EXCEPT !.converter =
             IF self.converter = NoConverter THEN itemwise(type_)
             ELSE itemwise("itemwise(" \o self.converter.fn \o ")")]
    ELSE IF self.converter # NoConverter THEN self
    ELSE IF type_ = "Pattern" THEN [self EXCEPT !.converter = Converter("re.compile")]
    ELSE IF type_ \in StrEnumTypes THEN [self EXCEPT !.choices = Choices(EnumMembers(type_))]
    ELSE [self EXCEPT !.converter = Converter(type_)]

\* the converter and choices BasePartialValueArgument.resolve_to_kwargs
\* writes back into the partial descriptor, type_ being the extracted type
InferConverter(self, typehint, type_) ==
    IF ~(self.converter = NoConverter /\ type_ # "str" /\ type_ # "Literal") THEN self
    ELSE IF extract_collection_type(typehint) # NoType
    THEN [self EXCEPT !.converter = itemwise(type_)]
    ELSE IF type_ = "Pattern" THEN [self EXCEPT !.converter = Converter("re.compile")]
    ELSE IF type_ \in StrEnumTypes THEN [self EXCEPT !.choices = Choices(EnumMembers(type_))]
    ELSE [self EXCEPT !.converter = Converter(type_)]

InferredPartial(self, typehint) ==
    InferConverter(self, typehint, extract_type_from_typehint(typehint))

\* the keyword arguments collected from the inferred descriptor
ValueKwargs(self, typehint, cls, literal_choices) ==
    [ArgBase(cls) EXCEPT
        !.converter = self.converter,
        !.default = IF extract_optional_type(typehint) = NoType
                       /\ extract_collection_type(typehint) # NoType
                       /\ ~self.at_least_one
                    THEN StrList(<<>>) ELSE self.default,
        !.choices = IF Len(literal_choices) > 0 /\ self.choices = None
                    THEN Choices(literal_choices) ELSE self.choices,
        !.optional = extract_optional_type(typehint) # NoType]

\* self as declared, inferred as resolve_to_kwargs leaves it
ResolveInferred(self, inferred, typehint, cls, type_, literal_choices) ==
    IF self.converter = NoConverter /\ type_ = "bool" THEN Raise("InvalidTypehint", self)
    ELSE IF self.converter = NoConverter /\ type_ \in ProtocolTypes
    THEN Raise("MissingConverter", self)
    ELSE IF self.converter = NoConverter /\ typehint.origin = "Union"
            /\ (Len(typehint.args) > 2 \/ ~union_contains_none(typehint))
    THEN Raise("InvalidTypehint", self)
    ELSE IF Len(literal_choices) > 0 /\ inferred.choices # None
            /\ ~(SeqToSet(inferred.choices.items) \subseteq SeqToSet(literal_choices))
    THEN Raise("InvalidArgument", inferred)
    ELSE Return(ValueKwargs(inferred, typehint, cls, literal_choices), inferred)

BasePartialValueArgument_resolve_to_kwargs(self, name, typehint, cls) ==
    ResolveInferred(self, InferredPartial(self, typehint), typehint, cls,
                    extract_type_from_typehint(typehint), extract_literal_strings(typehint))

\* PartialPositional.resolve_to_kwargs after super().resolve_to_kwargs returned r
PositionalKwargs(r, typehint) ==
    LET type_is_optional == extract_optional_type(typehint) # NoType
        type_is_collection == extract_collection_type(typehint) # NoType
        optional == type_is_optional \/ type_is_collection \/ r.self.default # void
        multi == type_is_collection
                 /\ (r.self.converter = NoConverter \/ r.self.converter.itemwise)
    IN  IF r.err # "" THEN r
        ELSE IF ~optional /\ r.self.mx_group # NoGroup
        THEN Raise("InvalidArgument", r.self)
        ELSE IF multi
        THEN Return([r.arg EXCEPT !.nargs = IF r.self.at_least_one THEN "+" ELSE "*"], r.self)
        ELSE r

PartialPositional_resolve_with_typehint(self, name, typehint) ==
    PositionalKwargs(
        BasePartialValueArgument_resolve_to_kwargs(self, name, typehint, "Positional"),
        typehint)

\* kwargs["short"], kwargs["short_only"], kwargs["append"] or kwargs["nargs"]
OptionArity(self, kwargs, typehint) ==
    [kwargs EXCEPT
        !.short = self.short,
        !.short_only = self.short_only,
        !.append = extract_collection_type(typehint) # NoType
                   /\ self.converter.itemwise /\ self.append,
        !.nargs = IF extract_collection_type(typehint) # NoType
                     /\ self.converter.itemwise /\ ~self.append
                  THEN (IF self.at_least_one THEN "+" ELSE "*") ELSE kwargs.nargs]

\* kwargs["name"], kwargs["dest"]
OptionNaming(self, kwargs, name) ==
    IF self.name_override # ""
    THEN [kwargs EXCEPT !.name = self.name_override, !.dest = name]
    ELSE IF self.short_only /\ self.short # ""
    THEN [kwargs EXCEPT !.dest = name]
    ELSE [kwargs EXCEPT !.name = name]

\* a requirement computation that rejects append together with at_least_one
OptionRequiredRejectingAppend(self, kwargs, typehint) ==
    IF self.append /\ self.at_least_one THEN Raise("InvalidArgument", self)
    ELSE IF ~((extract_optional_type(typehint) = NoType
               /\ extract_collection_type(typehint) = NoType) \/ self.at_least_one)
    THEN Return([kwargs EXCEPT !.optional = TRUE], self)
    ELSE IF self.mx_group # NoGroup THEN Raise("InvalidArgument", self)
    ELSE Return(kwargs, self)

\* kwargs["optional"], or the error for a required member of a group
OptionRequired(self, kwargs, typehint) ==
    IF ~((extract_optional_type(typehint) = NoType
          /\ extract_collection_type(typehint) = NoType) \/ self.at_least_one)
    THEN Return([kwargs EXCEPT !.optional = TRUE], self)
    ELSE IF self.mx_group # NoGroup THEN Raise("InvalidArgument", self)
    ELSE Return(kwargs, self)

\* PartialOption.resolve_to_kwargs after super().resolve_to_kwargs returned r
OptionKwargs(r, name, typehint) ==
    IF r.err # "" THEN r
    ELSE OptionRequired(r.self,
                        OptionNaming(r.self, OptionArity(r.self, r.arg, typehint), name),
                        typehint)

PartialOption_resolve_to_kwargs(self, name, typehint) ==
    OptionKwargs(BasePartialValueArgument_resolve_to_kwargs(self, name, typehint, "Option"),
                 name, typehint)

\* a resolution that synthesizes the short form from a name of any length
PartialOption_resolve_any_name(self, name, typehint) ==
    PartialOption_resolve_to_kwargs(self, name, typehint)

PartialOption_resolve_with_typehint(self, name, typehint) ==
    IF self.short_only /\ self.short = "" /\ Len(name) > 1
    THEN Raise("InvalidArgument", self)
    ELSE PartialOption_resolve_to_kwargs(self, name, typehint)

PartialFlag_resolve_with_typehint(self, name, typehint) ==
    IF self.short_only /\ self.short = "" /\ Len(name) > 1
    THEN Raise("InvalidArgument", self)
    ELSE Return([ArgBase("Flag") EXCEPT !.short = self.short,
                                        !.short_only = self.short_only,
                                        !.no_flag = self.no_flag], self)

PartialTriFlag_resolve_with_typehint(self, name, typehint) ==
    Return(ArgBase("TriFlag"), self)

\* partial_argument.resolve_with_typehint(name, typehint)
resolve_with_typehint(self, name, typehint) ==
    CASE self.cls = "PartialPositional" -> PartialPositional_resolve_with_typehint(self, name, typehint)
      [] self.cls = "PartialOption" -> PartialOption_resolve_with_typehint(self, name, typehint)
      [] self.cls = "PartialFlag" -> PartialFlag_resolve_with_typehint(self, name, typehint)
      [] OTHER -> PartialTriFlag_resolve_with_typehint(self, name, typehint)

-----------------------------------------------------------------------------
(* Shapes: a class is its name, its __mro__ (most derived first, each a    *)
(* class body of annotations and class variables) and the constraints its  *)
(* __presence_validations__ yields                                         *)

ClassBody(annotations, classvars) == [annotations |-> annotations, vars |-> classvars]

Attr(name, value) == [k |-> name, v |-> value]

\* parser.py: _collect_partial_arguments, "collect declared typehints"
RECURSIVE CollectTypehints(_, _)
CollectTypehints(reversed_mro, all_params) ==
    IF reversed_mro = <<>> THEN all_params
    ELSE LET anns == Head(reversed_mro).annotations
             entries == [i \in 1..Len(anns) |->
                            Attr(anns[i].k, [typehint |-> anns[i].v, value |-> Unassigned])]
         IN  CollectTypehints(Tail(reversed_mro), DictUpdate(all_params, entries))

\* {k: v for _cls in cls.__mro__ for k, v in vars(_cls).items()}
RECURSIVE MergedVars(_, _)
MergedVars(mro, acc) ==
    IF mro = <<>> THEN acc
    ELSE MergedVars(Tail(mro), DictUpdate(acc, Head(mro).vars))

Reverse(s) == [i \in 1..Len(s) |-> s[Len(s) + 1 - i]]

\* parser.py: _collect_partial_arguments, "collect declared defaults"
RECURSIVE CollectDefaults(_, _)
CollectDefaults(items, all_params) ==
    IF items = <<>> THEN [err |-> "", params |-> all_params]
    ELSE LET key == Head(items).k
             value == Head(items).v
         IN  IF ~DictHas(all_params, key)
             THEN IF IsPartialArgument(value)
                  THEN [err |-> "InvalidTypehint", params |-> <<>>]
                  ELSE CollectDefaults(Tail(items), all_params)
             ELSE CollectDefaults(Tail(items),
                      DictSet(all_params, key,
                          [typehint |-> DictGet(all_params, key).typehint, value |-> value]))

\* a construction that takes a bare default on a bool attribute for a flag
RECURSIVE ConstructArgumentsDefaultedFlag(_, _)
ConstructArgumentsDefaultedFlag(items, arguments) ==
    IF items = <<>> THEN [err |-> "", arguments |-> arguments]
    ELSE LET name == Head(items).k
             typehint == Head(items).v.typehint
             value == Head(items).v.value
             put(argument) == ConstructArgumentsDefaultedFlag(Tail(items),
                 DictSet(arguments, name, [typehint |-> typehint, argument |-> argument]))
         IN  IF value.cls = "PartialSubparsers"
             THEN ConstructArgumentsDefaultedFlag(Tail(items), arguments)
             ELSE IF IsPartialArgument(value) THEN put(value)
             ELSE IF typehint = Plain("bool") THEN put(PartialFlag)
             ELSE IF extract_optional_type(typehint) = "bool" THEN put(PartialTriFlag)
             ELSE put([PartialOption EXCEPT !.default = value.default])

\* parser.py: _collect_partial_arguments, "construct arguments"
RECURSIVE ConstructArguments(_, _)
ConstructArguments(items, arguments) ==
    IF items = <<>> THEN [err |-> "", arguments |-> arguments]
    ELSE LET name == Head(items).k
             typehint == Head(items).v.typehint
             value == Head(items).v.value
             put(argument) == ConstructArguments(Tail(items),
                 DictSet(arguments, name, [typehint |-> typehint, argument |-> argument]))
         IN  IF value.cls = "PartialSubparsers" THEN ConstructArguments(Tail(items), arguments)
             ELSE IF IsPartialArgument(value) THEN put(value)
             ELSE IF typehint = Plain("bool")
             THEN IF value.cls # "void"
                  THEN [err |-> "InvalidArgument", arguments |-> <<>>]
                  ELSE put(PartialFlag)
             ELSE IF extract_optional_type(typehint) = "bool" THEN put(PartialTriFlag)
             ELSE put([PartialOption EXCEPT !.default = value.default])

_collect_partial_arguments(cls) ==
    LET all_params == CollectTypehints(Reverse(cls.mro), <<>>)
        with_defaults == CollectDefaults(MergedVars(cls.mro, <<>>), all_params)
    IN  IF with_defaults.err # ""
        THEN [err |-> with_defaults.err, arguments |-> <<>>]
        ELSE ConstructArguments(with_defaults.params, <<>>)

\* [(key, value) for key, value in vars(shape).items() if isinstance(value, PartialSubparsers)]
RECURSIVE SubparsersIn(_)
SubparsersIn(d) ==
    IF d = <<>> THEN <<>>
    ELSE IF Head(d).v.cls = "PartialSubparsers" THEN <<Head(d)>> \o SubparsersIn(Tail(d))
    ELSE SubparsersIn(Tail(d))

NoSubparsersFound ==
    [err |-> "", found |-> FALSE, name |-> "", typehint |-> NoTypehint,
     partial_subparsers |-> Unassigned]

_collect_subparsers(cls) ==
    LET own == cls.mro[1]
        all_subparsers == SubparsersIn(own.vars)
        name == all_subparsers[1].k
        partial_subparsers == all_subparsers[1].v
        typehint == IF DictHas(own.annotations, name)
                    THEN DictGet(own.annotations, name) ELSE NoTypehint
    IN  IF all_subparsers = <<>> THEN NoSubparsersFound
        ELSE IF Len(all_subparsers) > 1
        THEN [NoSubparsersFound EXCEPT !.err = "InvalidParser"]
        ELSE IF partial_subparsers.shapes = <<>> /\ typehint = NoTypehint
        THEN [NoSubparsersFound EXCEPT !.err = "InvalidTypehint"]
        ELSE [err |-> "", found |-> TRUE, name |-> name, typehint |-> typehint,
              partial_subparsers |-> partial_subparsers]

-----------------------------------------------------------------------------
(* The classes the declared shapes may name as dispatch branches          *)

Class(name, annotations, classvars, validations) ==
    [name |-> name, mro |-> <<ClassBody(annotations, classvars)>>,
     validations |-> validations]

\* class name(*bases): the __mro__ is the class body followed by the bodies
\* of the bases
Subclass(name, bases, annotations, classvars, validations) ==
    [name |-> name,
     mro |-> <<ClassBody(annotations, classvars)>>
             \o (IF Len(bases) = 0 THEN <<>>
                 ELSE IF Len(bases) = 1 THEN bases[1].mro
                 ELSE bases[1].mro \o bases[2].mro),
     validations |-> validations]

Imply(arg, required, disallowed) ==
    [kind |-> "imply", arg |-> arg, required |-> required,
     disallowed |-> disallowed, args |-> <<>>]

Require(args) ==
    [kind |-> "require", arg |-> "", required |-> <<>>, disallowed |-> <<>>,
     args |-> args]

\* tests/test_subparsers.py: FooArgs
FooArgs == Class("FooArgs", <<Attr("arg1", Plain("str"))>>, <<>>, <<>>)

\* tests/test_subparsers.py: BarArgs
BarArgs ==
    Class("BarArgs", <<Attr("arg2", Plain("int"))>>,
          <<Attr("arg2", PartialPositional)>>, <<>>)

\* tests/test_mutual_exclusion.py: BarArgs of test_tri_flag_inside_subparser
TriArgs == Class("TriArgs", <<Attr("bar", Union(<<"bool", "NoneType">>))>>, <<>>, <<>>)

\* a branch whose optional option has the dispatch attribute's own name
ClashArgs ==
    Class("ClashArgs", <<Attr("action", Union(<<"str", "NoneType">>))>>, <<>>, <<>>)

\* a branch whose required option has the dispatch attribute's own name
ClashReq == Class("ClashReq", <<Attr("action", Plain("str"))>>, <<>>, <<>>)

\* tests/test_invalid.py: test_no_bool_valued_type_without_converter
BadArgs ==
    Class("BadArgs", <<Attr("x", Plain("bool"))>>, <<Attr("x", PartialPositional)>>, <<>>)

\* tests/test_presence_validations.py: FooBar
FooBar ==
    Class("FooBar", <<Attr("foo", Plain("bool")), Attr("bar", Plain("bool"))>>, <<>>,
          <<Imply("foo", <<"bar">>, <<>>)>>)

\* types.NoneType: no annotations, no data attributes
\* a branch with an append option (tests/test_multiple.py: test_append)
\*   values: list[int] = option("-v", append=True)
AppendArgs ==
    Class("AppendArgs", <<Attr("values", ListOf("int"))>>,
          <<Attr("values", [PartialOption EXCEPT !.short = "-v", !.append = TRUE])>>, <<>>)

\* a branch with a collection of at least one item
\*   items: list[int] = option(at_least_one=True)
ItemsArgs ==
    Class("ItemsArgs", <<Attr("items", ListOf("int"))>>,
          <<Attr("items", [PartialOption EXCEPT !.at_least_one = TRUE])>>, <<>>)

NoneTypeClass == Class("NoneType", <<>>, <<>>, <<>>)

ClassByName(name) ==
    CASE name = "FooArgs" -> FooArgs
      [] name = "BarArgs" -> BarArgs
      [] name = "TriArgs" -> TriArgs
      [] name = "ClashArgs" -> ClashArgs
      [] name = "ClashReq" -> ClashReq
      [] name = "BadArgs" -> BadArgs
      [] name = "FooBar" -> FooBar
      [] name = "AppendArgs" -> AppendArgs
      [] name = "ItemsArgs" -> ItemsArgs
      [] OTHER -> [NoneTypeClass EXCEPT !.name = name]

\* the class object a name denotes now: its partial descriptors are the
\* objects an earlier resolution wrote into, if there was one
CurrentClass(name) ==
    IF DictHas(written, name) THEN DictGet(written, name) ELSE ClassByName(name)

-----------------------------------------------------------------------------
(* parser.py: Parser and _make_parser *)

NoSubparsers ==
    [present |-> FALSE, name |-> "", required |-> FALSE, sub_parsers |-> <<>>]

Parser(cls, arguments, mx_groups, subparsers) ==
    [shape |-> cls.name, validations |-> cls.validations, arguments |-> arguments,
     mx_groups |-> mx_groups, subparsers |-> subparsers]

NoParser ==
    [shape |-> "", validations |-> <<>>, arguments |-> <<>>, mx_groups |-> <<>>,
     subparsers |-> NoSubparsers]

MxGroup(id, required) == [id |-> id, required |-> required, arguments |-> <<>>]

GroupIndex(mx_groups, id) == CHOOSE i \in 1..Len(mx_groups) : mx_groups[i].id = id

AddToFreshGroup(mx_groups, group, name, argument) ==
    Append(mx_groups, [id |-> group.id, required |-> group.required,
                       arguments |-> <<Attr(name, argument)>>])

\* mx_groups[mx_group].arguments[name] = argument, creating the MxGroup when
\* the tag is first seen
AddToGroup(mx_groups, group, name, argument) ==
    LET known == \E i \in 1..Len(mx_groups) : mx_groups[i].id = group.id
        groups == IF known THEN mx_groups
                  ELSE Append(mx_groups, MxGroup(group.id, group.required))
        g == GroupIndex(groups, group.id)
    IN  [groups EXCEPT ![g].arguments = DictSet(groups[g].arguments, name, argument)]

\* where the resolved argument r goes: Parser.arguments or its group
PlaceArgument(r, name, group, arguments, mx_groups) ==
    IF r.err # "" THEN [err |-> r.err, arguments |-> <<>>, mx_groups |-> <<>>]
    ELSE IF group = NoGroup
    THEN [err |-> "", arguments |-> DictSet(arguments, name, r.arg), mx_groups |-> mx_groups]
    ELSE [err |-> "", arguments |-> arguments,
          mx_groups |-> AddToGroup(mx_groups, group, name, r.arg)]

\* parser.py: _make_parser, "collect arguments and groups"
RECURSIVE ResolveArguments(_, _)
ResolveArguments(items, acc) ==
    IF items = <<>> \/ acc.err # "" THEN acc
    ELSE ResolveArguments(
             Tail(items),
             PlaceArgument(resolve_with_typehint(Head(items).v.argument, Head(items).k,
                                                 Head(items).v.typehint),
                           Head(items).k, Head(items).v.argument.mx_group,
                           acc.arguments, acc.mx_groups))

NothingResolved == [err |-> "", arguments |-> <<>>, mx_groups |-> <<>>]

\* zip(partial_subparsers.names, subshapes)
Zip(names, subshapes) ==
    LET n == IF Len(names) < Len(subshapes) THEN Len(names) ELSE Len(subshapes)
    IN  [i \in 1..n |-> [k |-> names[i], v |-> subshapes[i]]]

\* the subshapes _make_parser pairs with the declared names
SubshapesOf(typehint, partial_subparsers) ==
    IF partial_subparsers.shapes # <<>>
    THEN [err |-> "", types |-> partial_subparsers.shapes]
    ELSE extract_subparsers_from_typehint(typehint)

Failed(err) == [err |-> err, parser |-> NoParser]

\* subparsers = (name, Subparsers(subparsers_by_name, required=required))
WithSubparsers(cls, resolved, found, made) ==
    IF made.err # "" THEN Failed(made.err)
    ELSE [err |-> "",
          parser |-> Parser(cls, resolved.arguments, resolved.mx_groups,
                            [present |-> TRUE, name |-> found.name,
                             required |-> found.typehint = NoTypehint
                                          \/ ~union_contains_none(found.typehint),
                             sub_parsers |-> made.sub_parsers])]

RECURSIVE _make_parser(_)
RECURSIVE MakeSubparsers(_, _)
\* {name: _make_parser(subshape) for name, subshape in zip(names, subshapes)}
AddSubparser(pairs, subparsers_by_name, made) ==
    IF made.err # "" THEN [err |-> made.err, sub_parsers |-> <<>>]
    ELSE MakeSubparsers(Tail(pairs), DictSet(subparsers_by_name, Head(pairs).k, made.parser))

MakeSubparsers(pairs, subparsers_by_name) ==
    IF pairs = <<>> THEN [err |-> "", sub_parsers |-> subparsers_by_name]
    ELSE AddSubparser(pairs, subparsers_by_name, _make_parser(CurrentClass(Head(pairs).v)))

\* "collect subparsers"
CollectSubparsers(cls, resolved, found, subshapes) ==
    IF found.err # "" THEN Failed(found.err)
    ELSE IF ~found.found
    THEN [err |-> "",
          parser |-> Parser(cls, resolved.arguments, resolved.mx_groups, NoSubparsers)]
    ELSE IF subshapes.err # "" THEN Failed(subshapes.err)
    ELSE WithSubparsers(cls, resolved, found,
                        MakeSubparsers(Zip(found.partial_subparsers.names, subshapes.types),
                                       <<>>))

MakeResolved(cls, resolved, found) ==
    IF resolved.err # "" THEN Failed(resolved.err)
    ELSE CollectSubparsers(cls, resolved, found,
                           SubshapesOf(found.typehint, found.partial_subparsers))

MakeCollected(cls, collected) ==
    IF collected.err # "" THEN Failed(collected.err)
    ELSE MakeResolved(cls, ResolveArguments(collected.arguments, NothingResolved),
                      _collect_subparsers(cls))

_make_parser(cls) == MakeCollected(cls, _collect_partial_arguments(cls))

arcparser(cls) == _make_parser(cls)

\* the class after _make_parser resolved its arguments: every partial
\* descriptor of a class body that _collect_partial_arguments handed to
\* resolve_with_typehint is the object that call left
WriteBack(cls) ==
    LET collected == _collect_partial_arguments(cls).arguments
        resolved(a) ==
            IF IsPartialArgument(a.v) /\ DictHas(collected, a.k)
               /\ DictGet(collected, a.k).argument = a.v
            THEN Attr(a.k, resolve_with_typehint(a.v, a.k,
                                DictGet(collected, a.k).typehint).self)
            ELSE a
    IN  [cls EXCEPT !.mro =
            [i \in 1..Len(cls.mro) |->
                [cls.mro[i] EXCEPT !.vars =
                    [j \in 1..Len(cls.mro[i].vars) |-> resolved(cls.mro[i].vars[j])]]]]

\* the classes a successful _make_parser(cls) resolved, as it left them
RECURSIVE WrittenTree(_)
RECURSIVE WrittenBranches(_, _)
WrittenBranches(pairs, acc) ==
    IF pairs = <<>> THEN acc
    ELSE WrittenBranches(Tail(pairs),
                         DictUpdate(acc, WrittenTree(CurrentClass(Head(pairs).v))))

WrittenTree(cls) ==
    LET found == _collect_subparsers(cls)
        subshapes == SubshapesOf(found.typehint, found.partial_subparsers)
    IN  IF found.err # "" \/ ~found.found \/ subshapes.err # ""
        THEN <<Attr(cls.name, WriteBack(cls))>>
        ELSE WrittenBranches(Zip(found.partial_subparsers.names, subshapes.types),
                             <<Attr(cls.name, WriteBack(cls))>>)

-----------------------------------------------------------------------------
(* The token engine (argparse) behind Parser.apply and parse_args.  A      *)
(* token is an option string with the values that follow it, or one bare   *)
(* word.                                                                   *)

OptToken(key, vals) == [t |-> "opt", key |-> key, vals |-> vals]

WordToken(word) == [t |-> "word", key |-> "", vals |-> <<word>>]

EngineAction(dest, key, kind, nargs, default, required, choices, group) ==
    [dest |-> dest, key |-> key, kind |-> kind, nargs |-> nargs, default |-> default,
     required |-> required, choices |-> choices, group |-> group]

\* the option string an Option or Flag is registered under
OptionString(argument, name) ==
    IF argument.short_only /\ argument.short # "" THEN argument.short
    ELSE IF argument.short_only THEN "-" \o name
    ELSE IF argument.cls = "Flag" /\ argument.no_flag THEN "--no-" \o name
    ELSE IF argument.name # "" THEN "--" \o argument.name
    ELSE "--" \o name

EngineDefault(argument) == IF argument.default = void THEN None ELSE argument.default

\* Flag.apply: store_true, or store_false for a negated flag
FlagActions(argument, name, group) ==
    <<EngineAction(name, OptionString(argument, name),
                   IF argument.no_flag THEN "store_false" ELSE "store_true",
                   "", Bool(argument.no_flag), FALSE, None, group)>>

\* TriFlag.apply: --name and --no-name in one mutually exclusive unit, the
\* enclosing group when there is one
TriFlagActions(argument, name, group) ==
    LET unit == IF group = "" THEN "tri_flag:" \o name ELSE group
    IN  <<EngineAction(name, "--" \o name, "store_true", "", False, FALSE, None, unit),
          EngineAction("no_" \o name, "--no-" \o name, "store_true", "", False, FALSE,
                       None, unit)>>

\* Option.apply: required unless optional or defaulted; an append option
\* leaves its default to Parser.parse
OptionActions(argument, name, group) ==
    <<EngineAction(name, OptionString(argument, name),
                   IF argument.append THEN "append" ELSE "store",
                   argument.nargs,
                   IF argument.append THEN None ELSE EngineDefault(argument),
                   ~argument.optional /\ argument.default = void,
                   argument.choices, group)>>

\* Positional.apply: zero-or-one when optional or defaulted
PositionalActions(argument, name, group) ==
    <<EngineAction(name, "", "store",
                   IF argument.nargs # "" THEN argument.nargs
                   ELSE IF argument.optional \/ argument.default # void THEN "?"
                   ELSE "",
                   EngineDefault(argument),
                   IF argument.nargs # "" THEN argument.nargs = "+"
                   ELSE ~(argument.optional \/ argument.default # void),
                   argument.choices, group)>>

\* argument.apply(container, name)
ArgumentActions(argument, name, group) ==
    CASE argument.cls = "Flag" -> FlagActions(argument, name, group)
      [] argument.cls = "TriFlag" -> TriFlagActions(argument, name, group)
      [] argument.cls = "Option" -> OptionActions(argument, name, group)
      [] OTHER -> PositionalActions(argument, name, group)

RECURSIVE ApplyArguments(_, _)
ApplyArguments(arguments, group) ==
    IF arguments = <<>> THEN <<>>
    ELSE ArgumentActions(Head(arguments).v, Head(arguments).k, group)
         \o ApplyArguments(Tail(arguments), group)

\* the members of every group, in registration order
RECURSIVE GroupArguments(_)
GroupArguments(mx_groups) ==
    IF mx_groups = <<>> THEN <<>>
    ELSE Head(mx_groups).arguments \o GroupArguments(Tail(mx_groups))

\* every member registered on the parser itself, outside any unit
ApplyMembersUngrouped(mx_groups) == ApplyArguments(GroupArguments(mx_groups), "")

RECURSIVE ApplyGroups(_)
ApplyGroups(mx_groups) ==
    IF mx_groups = <<>> THEN <<>>
    ELSE ApplyArguments(Head(mx_groups).arguments, Head(mx_groups).id)
         \o ApplyGroups(Tail(mx_groups))

\* Parser.apply: the arguments, then each group as one mutually exclusive
\* unit, then the subparsers action
Parser_apply(p) ==
    ApplyArguments(p.arguments, "")
    \o ApplyGroups(p.mx_groups)
    \o (IF p.subparsers.present
        THEN <<EngineAction(p.subparsers.name, "", "parsers", "", None,
                            p.subparsers.required, None, "")>>
        ELSE <<>>)

RequiredGroups(p) ==
    {p.mx_groups[i].id : i \in {j \in 1..Len(p.mx_groups) : p.mx_groups[j].required}}

\* the namespace before any token is read: every action's default
RECURSIVE Defaults(_, _)
Defaults(acts, ns) ==
    IF acts = <<>> THEN ns
    ELSE Defaults(Tail(acts),
                  IF DictHas(ns, Head(acts).dest) THEN ns
                  ELSE DictSet(ns, Head(acts).dest, Head(acts).default))

ChoicesAllow(act, vals) ==
    act.choices = None \/ SeqToSet(vals) \subseteq SeqToSet(act.choices.items)

ArityAllows(act, vals) ==
    CASE act.kind \in {"store_true", "store_false"} -> Len(vals) = 0
      [] act.nargs = "*" -> TRUE
      [] act.nargs = "+" -> Len(vals) >= 1
      [] OTHER -> Len(vals) = 1

\* another member of the same mutually exclusive unit was already seen
Conflicts(acts, seen, i) ==
    acts[i].group # ""
    /\ \E j \in seen : j # i /\ acts[j].group = acts[i].group

StoredValue(act, old, vals) ==
    CASE act.kind = "store_true" -> True
      [] act.kind = "store_false" -> False
      [] act.kind = "append" ->
            StrList((IF old.tag = "list[str]" THEN old.items ELSE <<>>) \o vals)
      [] act.nargs \in {"*", "+"} -> StrList(vals)
      [] OTHER -> Str(vals[1])

\* the positional a bare word goes to: the first one not yet filled, a
\* multi-valued one staying open
OpenPositionals(acts, seen) ==
    {i \in 1..Len(acts) :
        /\ acts[i].key = "" /\ acts[i].kind # "parsers"
        /\ (i \notin seen \/ acts[i].nargs \in {"*", "+"})
        /\ \A j \in 1..(i - 1) :
              (acts[j].key = "" /\ acts[j].kind # "parsers") => j \in seen}

Min(S) == CHOOSE x \in S : \A y \in S : x <= y

\* what is missing once every token is consumed
MissingRequired(p, acts, seen) ==
    \/ \E i \in 1..Len(acts) : acts[i].required /\ i \notin seen
    \/ \E g \in RequiredGroups(p) : ~\E i \in seen : acts[i].group = g

EngineExit == [exit |-> TRUE, ns |-> <<>>]

RECURSIVE parse_args(_, _)
RECURSIVE Scan(_, _, _, _, _)
Scan(p, acts, toks, ns, seen) ==
    IF toks = <<>>
    THEN IF MissingRequired(p, acts, seen) THEN EngineExit
         ELSE [exit |-> FALSE, ns |-> ns]
    ELSE LET tok == Head(toks)
             named == {i \in 1..Len(acts) : acts[i].key = tok.key}
             open == OpenPositionals(acts, seen)
             sub == {i \in 1..Len(acts) : acts[i].kind = "parsers" /\ i \notin seen}
             i == IF tok.t = "opt" THEN Min(named) ELSE Min(open)
             old == DictGet(ns, acts[i].dest)
             vals == IF tok.t = "word" /\ i \in seen /\ old.tag = "list[str]"
                     THEN old.items \o tok.vals ELSE tok.vals
             s == Min(sub)
             inner == parse_args(DictGet(p.subparsers.sub_parsers, tok.vals[1]), Tail(toks))
         IN  IF tok.t = "opt" /\ named = {} THEN EngineExit
             ELSE IF tok.t = "word" /\ open = {}
             THEN IF sub = {} \/ ~DictHas(p.subparsers.sub_parsers, tok.vals[1])
                  THEN EngineExit
                  ELSE IF inner.exit THEN EngineExit
                  ELSE Scan(p, acts, <<>>,
                            DictUpdate(DictSet(ns, acts[s].dest, Str(tok.vals[1])), inner.ns),
                            seen \cup {s})
             ELSE IF Conflicts(acts, seen, i) \/ ~ArityAllows(acts[i], tok.vals)
                     \/ ~ChoicesAllow(acts[i], tok.vals)
             THEN EngineExit
             ELSE Scan(p, acts, Tail(toks),
                       DictSet(ns, acts[i].dest, StoredValue(acts[i], old, vals)),
                       seen \cup {i})

\* ap_parser = ArgumentParser(); self.apply(ap_parser); ap_parser.parse_args(args)
parse_args(p, args) ==
    Scan(p, Parser_apply(p), args, Defaults(Parser_apply(p), <<>>), {})

-----------------------------------------------------------------------------
(* parser.py: Parser.all_arguments, Parser.shallow_names *)

RECURSIVE all_arguments(_)
RECURSIVE SubparserArguments(_)
SubparserArguments(sub_parsers) ==
    IF sub_parsers = <<>> THEN <<>>
    ELSE all_arguments(Head(sub_parsers).v) \o SubparserArguments(Tail(sub_parsers))

\* a sequence of [k, v], a name possibly more than once
all_arguments(p) ==
    p.arguments \o GroupArguments(p.mx_groups)
    \o (IF p.subparsers.present THEN SubparserArguments(p.subparsers.sub_parsers)
        ELSE <<>>)

shallow_names(p) ==
    DictKeys(p.arguments) \cup DictKeys(GroupArguments(p.mx_groups))
    \cup (IF p.subparsers.present THEN {p.subparsers.name} ELSE {})

-----------------------------------------------------------------------------
(* parser.py: Parser.parse, before _construct_object_with_parsed *)

Raised(err, dict_) == [err |-> err, dict |-> dict_]

\* a parse() that uses up the descriptor's default: only the first call on a
\* Parser finds it
RECURSIVE AssignAppendDefaultsOnce(_, _)
AssignAppendDefaultsOnce(args, dict_) ==
    IF args = <<>> THEN Raised("", dict_)
    ELSE LET name == Head(args).k
             arg == Head(args).v
         IN  IF ~(arg.cls = "Option" /\ arg.append)
             THEN AssignAppendDefaultsOnce(Tail(args), dict_)
             ELSE IF ~DictHas(dict_, name) THEN Raised("KeyError", dict_)
             ELSE IF ~Truthy(DictGet(dict_, name))
             THEN AssignAppendDefaultsOnce(Tail(args),
                      DictSet(dict_, name, IF returned = <<>> THEN arg.default ELSE None))
             ELSE AssignAppendDefaultsOnce(Tail(args), dict_)

\* "assign default values for append arguments if no arguments were provided"
RECURSIVE AssignAppendDefaults(_, _)
AssignAppendDefaults(args, dict_) ==
    IF args = <<>> THEN Raised("", dict_)
    ELSE LET name == Head(args).k
             arg == Head(args).v
         IN  IF ~(arg.cls = "Option" /\ arg.append)
             THEN AssignAppendDefaults(Tail(args), dict_)
             ELSE IF ~DictHas(dict_, name) THEN Raised("KeyError", dict_)
             ELSE IF ~Truthy(DictGet(dict_, name))
             THEN AssignAppendDefaults(Tail(args), DictSet(dict_, name, arg.default))
             ELSE AssignAppendDefaults(Tail(args), dict_)

\* [name for name, arg in self.all_arguments if isinstance(arg, TriFlag)]
RECURSIVE TriFlagNames(_)
TriFlagNames(args) ==
    IF args = <<>> THEN <<>>
    ELSE IF Head(args).v.cls = "TriFlag" THEN <<Head(args).k>> \o TriFlagNames(Tail(args))
    ELSE TriFlagNames(Tail(args))

no_flag_name(name) == "no_" \o name

\* a tri-flag reduced to two values only
TriFlagNeverAbsent(yes_case, no_case) == IF Truthy(yes_case) THEN True ELSE False

\* the ternary value of one tri-flag from its two booleans
TriFlagValue(yes_case, no_case) ==
    IF Truthy(yes_case) THEN True
    ELSE IF Truthy(no_case) THEN False
    ELSE None

RECURSIVE _reduce_tri_flags(_, _)
_reduce_tri_flags(dict_, tri_flag_names) ==
    IF tri_flag_names = <<>> THEN Raised("", dict_)
    ELSE LET name == Head(tri_flag_names)
             yes_case == DictGet(dict_, name)
             no_case == DictGet(dict_, no_flag_name(name))
         IN  IF ~DictHas(dict_, name) \/ ~DictHas(dict_, no_flag_name(name))
             THEN Raised("KeyError", dict_)
             ELSE IF Truthy(yes_case) /\ Truthy(no_case)
             THEN Raised("AssertionError", dict_)
             ELSE _reduce_tri_flags(
                      DictSet(DictDel(dict_, no_flag_name(name)), name,
                              TriFlagValue(yes_case, no_case)),
                      Tail(tri_flag_names))

-----------------------------------------------------------------------------
(* _validations.py *)

\* arguments.get(key): None when the key is absent
Get(dict_, key) == IF DictHas(dict_, key) THEN DictGet(dict_, key) ELSE None

\* argument.name: the name keyword an Option was resolved with, else the
\* attribute the descriptor was declared as
ArgumentName(argument, attribute) ==
    IF argument.cls = "Option" /\ argument.name # "" THEN argument.name ELSE attribute

\* Constraint.is_provided: [err, val]
is_provided(argument, attribute, arguments) ==
    LET provided_value == Get(arguments, ArgumentName(argument, attribute))
    IN  IF provided_value = None THEN [err |-> "", val |-> FALSE]
        ELSE IF argument.cls = "Flag"
        THEN [err |-> "", val |-> provided_value # Bool(argument.no_flag)]
        ELSE IF IsValueArgument(argument)
        THEN [err |-> "", val |-> provided_value # argument.default]
        ELSE [err |-> "Exception", val |-> FALSE]

\* ArgumentAccessor.__getattribute__ fails for a name that is not in
\* Parser.arguments
HandlesOf(constraint) ==
    SeqToSet(constraint.required) \cup SeqToSet(constraint.disallowed)
    \cup SeqToSet(constraint.args)
    \cup (IF constraint.kind = "imply" THEN {constraint.arg} ELSE {})

Provided(defined, attribute, arguments) ==
    is_provided(DictGet(defined, attribute), attribute, arguments)

\* an implication that does not look at its disallowed members
ImplyIgnoringDisallowed(self, defined, arguments) ==
    IF Provided(defined, self.arg, arguments).err # "" THEN "raise"
    ELSE IF ~Provided(defined, self.arg, arguments).val THEN "skip"
    ELSE IF \E i \in 1..Len(self.required) :
                ~Provided(defined, self.required[i], arguments).val
    THEN "raise"
    ELSE "match"

\* ImplyConstraint.validate: "raise", "match" (True) or "skip" (False)
ImplyConstraint_validate(self, defined, arguments) ==
    LET trigger == Provided(defined, self.arg, arguments)
        req == self.required
        dis == self.disallowed
        \* the first member whose check raises, in the order the code checks
        req_bad == {i \in 1..Len(req) :
                       Provided(defined, req[i], arguments).err # ""
                       \/ ~Provided(defined, req[i], arguments).val}
        dis_bad == {i \in 1..Len(dis) :
                       Provided(defined, dis[i], arguments).err # ""
                       \/ Provided(defined, dis[i], arguments).val}
    IN  IF trigger.err # "" THEN "raise"
        ELSE IF ~trigger.val THEN "skip"
        ELSE IF req_bad # {} \/ dis_bad # {} THEN "raise"
        ELSE "match"

\* a requirement satisfied when none of its members is provided
RequireSatisfiedByNone(self, defined, arguments) ==
    IF \A i \in 1..Len(self.args) : ~Provided(defined, self.args[i], arguments).val
    THEN "match"
    ELSE IF \E i \in 1..Len(self.args) : ~Provided(defined, self.args[i], arguments).val
    THEN "raise"
    ELSE "match"

\* RequireConstraint.validate
RequireConstraint_validate(self, defined, arguments) ==
    LET not_provided == {i \in 1..Len(self.args) :
                            Provided(defined, self.args[i], arguments).err # ""
                            \/ ~Provided(defined, self.args[i], arguments).val}
    IN  IF not_provided # {} THEN "raise" ELSE "match"

\* one iteration of validate_with's loop
Constraint_validate(constraint, defined, arguments) ==
    IF ~(HandlesOf(constraint) \subseteq DictKeys(defined)) THEN "raise"
    ELSE IF constraint.kind = "imply"
    THEN ImplyConstraint_validate(constraint, defined, arguments)
    ELSE RequireConstraint_validate(constraint, defined, arguments)

-----------------------------------------------------------------------------
(* parser.py: Parser._construct_object_with_parsed *)

ListTag(fn) == "list[" \o fn \o "]"

ConverterNames == {"str", "int", "re.compile", "Color", "f", "csv", "parse_result"}

IsList(v) == v.tag \in {ListTag(fn) : fn \in ConverterNames}

\* converter(value): the result is tagged with the converter applied
Converted(converter, value) ==
    IF converter.itemwise
    THEN IF value.items = <<>> THEN value
         ELSE [tag |-> ListTag(converter.fn), items |-> value.items]
    ELSE [tag |-> converter.fn, items |-> value.items]

\* "apply argument converters"
RECURSIVE ApplyConverters(_, _)
ApplyConverters(args, dict_) ==
    IF args = <<>> THEN Raised("", dict_)
    ELSE LET name == Head(args).k
             argument == Head(args).v
             value == IF DictHas(dict_, name) THEN DictGet(dict_, name)
                      ELSE argument.default
             accepted == \A i \in 1..Len(value.items) :
                             ConverterAccepts(argument.converter.fn, value.items[i])
             put(v) == ApplyConverters(Tail(args), DictSet(dict_, name, v))
         IN  IF ~IsValueArgument(argument) \/ argument.converter = NoConverter
             THEN ApplyConverters(Tail(args), dict_)
             ELSE IF argument.converter.itemwise
             THEN IF ~IsList(value) THEN Raised("AssertionError", dict_)
                  ELSE IF value.tag # ListTag("str") THEN put(value)
                  ELSE IF ~accepted THEN Raised("ValueError", dict_)
                  ELSE put(Converted(argument.converter, value))
             ELSE IF ~IsStr(value) THEN put(value)
             ELSE IF ~accepted THEN Raised("ValueError", dict_)
             ELSE put(Converted(argument.converter, value))

\* the keys _instantiate_from_dict moves from the mapping to the object
RECURSIVE Moved(_, _)
Moved(dict_, move_names) ==
    IF dict_ = <<>> THEN <<>>
    ELSE IF Head(dict_).k \in move_names
    THEN <<Head(dict_)>> \o Moved(Tail(dict_), move_names)
    ELSE Moved(Tail(dict_), move_names)

RECURSIVE Kept(_, _)
Kept(dict_, move_names) ==
    IF dict_ = <<>> THEN <<>>
    ELSE IF Head(dict_).k \in move_names THEN Kept(Tail(dict_), move_names)
    ELSE <<Head(dict_)>> \o Kept(Tail(dict_), move_names)

\* class ArgProxy(cls) cannot subclass NoneType
_instantiate_from_dict(cls, dict_, move_names) ==
    [err |-> IF cls = "NoneType" THEN "TypeError" ELSE "",
     obj |-> [shape |-> cls, attrs |-> Moved(dict_, move_names)],
     dict |-> Kept(dict_, move_names)]

FrameFromConversion(p, name) == [parser |-> p, phase |-> "convert", name |-> name]

Frame(p, name) == [parser |-> p, phase |-> "sub", name |-> name]

-----------------------------------------------------------------------------
(* Inputs *)

MaxTokens == 2

TokenValues == {"a", "1"}

RECURSIVE AllActions(_)
RECURSIVE SubparserActions(_)
SubparserActions(sub_parsers) ==
    IF sub_parsers = <<>> THEN <<>>
    ELSE AllActions(Head(sub_parsers).v) \o SubparserActions(Tail(sub_parsers))

\* every action registered on the engine, the subparsers' included
AllActions(p) ==
    Parser_apply(p)
    \o (IF p.subparsers.present THEN SubparserActions(p.subparsers.sub_parsers) ELSE <<>>)

RECURSIVE BranchNames(_)
RECURSIVE SubBranchNames(_)
SubBranchNames(sub_parsers) ==
    IF sub_parsers = <<>> THEN {}
    ELSE BranchNames(Head(sub_parsers).v) \cup SubBranchNames(Tail(sub_parsers))

BranchNames(p) ==
    IF p.subparsers.present
    THEN DictKeys(p.subparsers.sub_parsers) \cup SubBranchNames(p.subparsers.sub_parsers)
    ELSE {}

\* the values tried on an action: for one with choices, a choice and a
\* value that is none
ValuesFor(act) ==
    IF act.choices = None \/ act.choices.items = <<>> THEN TokenValues
    ELSE {act.choices.items[1], "a"}

TokensOf(act) ==
    IF act.key = "" THEN
        IF act.kind = "parsers" THEN {} ELSE {WordToken(v) : v \in ValuesFor(act)}
    ELSE IF act.kind \in {"store_true", "store_false"} THEN {OptToken(act.key, <<>>)}
    ELSE IF act.nargs \in {"*", "+"}
    THEN {OptToken(act.key, <<>>)} \cup {OptToken(act.key, <<v>>) : v \in ValuesFor(act)}
    ELSE {OptToken(act.key, <<v>>) : v \in ValuesFor(act)}

\* the tokens that mean something to the parser
Alphabet(p) ==
    UNION {TokensOf(AllActions(p)[i]) : i \in 1..Len(AllActions(p))}
    \cup {WordToken(b) : b \in BranchNames(p)}

TokenSeqs(alphabet) == UNION {[1..n -> alphabet] : n \in 0..MaxTokens}

-----------------------------------------------------------------------------
(* The operations *)

\* arcparser(shape)
MakeParser ==
    /\ pc = "declared"
    /\ LET made == arcparser(shape)
       IN  /\ parser' = made.parser
           /\ error' = made.err
           /\ pc' = IF made.err = "" THEN "ready" ELSE "decl_error"
           /\ written' = IF made.err = "" THEN WrittenTree(shape) ELSE <<>>
    /\ UNCHANGED <<shape, returned, tokens, parsed, frames, evaluated, objs>>

\* arcparser(shape) once more: the partial descriptors of the class bodies
\* are the objects the first resolution left
ResolveAgain ==
    /\ pc = "ready"
    /\ LET made == arcparser(CurrentClass(shape.name))
       IN  /\ parser' = made.parser
           /\ error' = made.err
           /\ pc' = IF made.err = "" THEN "ready" ELSE "decl_error"
           /\ written' = IF made.err = "" THEN WrittenTree(CurrentClass(shape.name))
                         ELSE written
    /\ UNCHANGED <<shape, returned, tokens, parsed, frames, evaluated, objs>>

\* Parser.parse: ap_parser.parse_args(args)
ParseArgs ==
    /\ pc = "ready"
    /\ \E args \in TokenSeqs(Alphabet(parser)) :
          LET r == parse_args(parser, args)
          IN  /\ tokens' = args
              /\ parsed' = r.ns
              /\ error' = IF r.exit THEN "SystemExit" ELSE ""
              /\ pc' = IF r.exit THEN "exit" ELSE "namespace"
    /\ UNCHANGED <<shape, written, returned, parser, frames, evaluated, objs>>

\* Parser.parse: defaults of append options nothing was given for
AppendDefaults ==
    /\ pc = "namespace"
    /\ LET r == AssignAppendDefaults(all_arguments(parser), parsed)
       IN  /\ parsed' = r.dict
           /\ error' = r.err
           /\ pc' = IF r.err = "" THEN "appended" ELSE "raised"
    /\ UNCHANGED <<shape, written, returned, parser, tokens, frames, evaluated, objs>>

\* Parser.parse: _reduce_tri_flags, then the outermost
\* _construct_object_with_parsed call starts
ReduceTriFlags ==
    /\ pc = "appended"
    /\ LET r == _reduce_tri_flags(parsed, TriFlagNames(all_arguments(parser)))
       IN  /\ parsed' = r.dict
           /\ error' = r.err
           /\ pc' = IF r.err = "" THEN "construct" ELSE "raised"
           /\ frames' = IF r.err = "" THEN <<Frame(parser, "")>> ELSE <<>>
    /\ UNCHANGED <<shape, written, returned, parser, tokens, evaluated, objs>>

Top == frames[Len(frames)]

SetPhase(phase) == [frames EXCEPT ![Len(frames)].phase = phase]

\* _construct_object_with_parsed: the chosen subparser, if any, constructs
\* its object first
EnterSubparser ==
    /\ pc = "construct" /\ Top.phase = "sub"
    /\ LET p == Top.parser
           chosen_subparser == Get(parsed, p.subparsers.name)
       IN  IF ~p.subparsers.present \/ ~Truthy(chosen_subparser)
           THEN /\ frames' = SetPhase("validate")
                /\ UNCHANGED <<pc, error>>
           ELSE IF IsList(chosen_subparser)
           THEN /\ pc' = "raised" /\ error' = "TypeError"
                /\ UNCHANGED frames
           ELSE IF ~(IsStr(chosen_subparser)
                     /\ DictHas(p.subparsers.sub_parsers, chosen_subparser.items[1]))
           THEN /\ pc' = "raised" /\ error' = "InvalidParser"
                /\ UNCHANGED frames
           ELSE /\ frames' = Append(frames,
                       Frame(DictGet(p.subparsers.sub_parsers, chosen_subparser.items[1]),
                             p.subparsers.name))
                /\ UNCHANGED <<pc, error>>
    /\ UNCHANGED <<shape, written, returned, parser, tokens, parsed, evaluated, objs>>

\* a validation loop that does not stop at the first match
RECURSIVE validate_every(_, _, _, _)
validate_every(defined_arguments, constraints, provided_arguments, i) ==
    IF i > Len(constraints) THEN <<>>
    ELSE LET matched == Constraint_validate(constraints[i], defined_arguments,
                                            provided_arguments)
         IN  <<[index |-> i, outcome |-> matched]>>
             \o (IF matched # "raise"
                 THEN validate_every(defined_arguments, constraints, provided_arguments, i + 1)
                 ELSE <<>>)

\* validate_with: the constraints in order until one matches or raises
RECURSIVE validate_with(_, _, _, _)
validate_with(defined_arguments, constraints, provided_arguments, i) ==
    IF i > Len(constraints) THEN <<>>
    ELSE LET matched == Constraint_validate(constraints[i], defined_arguments,
                                            provided_arguments)
         IN  <<[index |-> i, outcome |-> matched]>>
             \o (IF matched = "skip"
                 THEN validate_with(defined_arguments, constraints, provided_arguments, i + 1)
                 ELSE <<>>)

Validate ==
    /\ pc = "construct" /\ Top.phase = "validate"
    /\ LET p == Top.parser
           trace == validate_with(p.arguments, p.validations, parsed, 1)
           raised == trace # <<>> /\ trace[Len(trace)].outcome = "raise"
       IN  /\ evaluated' = evaluated \o [i \in 1..Len(trace) |->
                               [shape |-> p.shape, index |-> trace[i].index,
                                outcome |-> trace[i].outcome, mapping |-> parsed]]
           /\ IF raised
              THEN /\ pc' = "raised" /\ error' = "Exception"
                   /\ UNCHANGED frames
              ELSE /\ frames' = SetPhase("convert")
                   /\ UNCHANGED <<pc, error>>
    /\ UNCHANGED <<shape, written, returned, parser, tokens, parsed, objs>>

\* "apply argument converters"
Convert ==
    /\ pc = "construct" /\ Top.phase = "convert"
    /\ LET r == ApplyConverters(all_arguments(Top.parser), parsed)
       IN  IF r.err # ""
           THEN /\ pc' = "raised" /\ error' = r.err
                /\ UNCHANGED <<frames, parsed>>
           ELSE /\ parsed' = r.dict
                /\ frames' = SetPhase("instantiate")
                /\ UNCHANGED <<pc, error>>
    /\ UNCHANGED <<shape, written, returned, parser, tokens, evaluated, objs>>

\* return _instantiate_from_dict(...); the caller stores the object under
\* the dispatch name and goes on to its own validations
Instantiate ==
    /\ pc = "construct" /\ Top.phase = "instantiate"
    /\ LET r == _instantiate_from_dict(Top.parser.shape, parsed,
                                       shallow_names(Top.parser))
           callers == SubSeq(frames, 1, Len(frames) - 1)
       IN  IF r.err # ""
           THEN /\ pc' = "raised" /\ error' = r.err
                /\ UNCHANGED <<frames, parsed, objs>>
           ELSE /\ objs' = <<r.obj>> \o objs
                /\ error' = ""
                /\ IF callers = <<>>
                   THEN /\ pc' = "done" /\ frames' = <<>> /\ parsed' = r.dict
                   ELSE /\ pc' = pc
                        /\ parsed' = DictSet(r.dict, Top.name, Inst(r.obj.shape))
                        /\ frames' = [callers EXCEPT ![Len(callers)].phase = "validate"]
    /\ UNCHANGED <<shape, written, returned, parser, tokens, evaluated>>

\* the helper call of a class body: option(...) or flag(...)
HelperCall(kw) == IF kw.helper = "flag" THEN flag(kw) ELSE option(kw)

\* the class body runs its helper calls in order; the first that raises
\* ends the class statement
RECURSIVE RunClassBody(_, _)
RunClassBody(calls, classvars) ==
    IF calls = <<>> THEN [err |-> "", vars |-> classvars]
    ELSE LET r == HelperCall(Head(calls).v)
         IN  IF r.err # "" THEN [err |-> r.err, vars |-> <<>>]
             ELSE RunClassBody(Tail(calls), Append(classvars, Attr(Head(calls).k, r.self)))

\* the class statement: the class exists once its body has run
DeclareClass ==
    /\ pc = "statement"
    /\ LET r == RunClassBody(shape.body.calls, <<>>)
       IN  IF r.err # ""
           THEN /\ pc' = "body_error" /\ error' = r.err
                /\ UNCHANGED shape
           ELSE /\ pc' = "declared" /\ error' = ""
                /\ shape' = [shape EXCEPT !.mro = <<ClassBody(shape.body.annotations, r.vars)>>]
    /\ UNCHANGED <<parser, written, returned, tokens, parsed, frames, evaluated, objs>>

\* how the current parse() call ended
Outcome == [tokens |-> tokens, pc |-> pc, error |-> error, objs |-> objs]

Ended == pc \in {"done", "exit", "raised"}

\* the caller calls parse() on the same Parser again: the locals of the call
\* that ended are gone, the Parser is the one arcparser() returned
ParseAgain ==
    /\ Ended
    /\ returned' = IF returned = <<>> THEN <<Outcome>> ELSE returned
    /\ pc' = "ready"
    /\ tokens' = <<>>
    /\ parsed' = <<>>
    /\ frames' = <<>>
    /\ evaluated' = <<>>
    /\ objs' = <<>>
    /\ error' = ""
    /\ UNCHANGED <<shape, parser, written>>

-----------------------------------------------------------------------------
(* The declared shapes *)

Optional(t) == Union(<<t, "NoneType">>)

subparsers(names) == PartialSubparsers(names, <<>>)

\* tests/test_subparsers.py: ReqArgs
ReqArgs ==
    Class("ReqArgs", <<Attr("action", Union(<<"FooArgs", "BarArgs">>))>>,
          <<Attr("action", subparsers(<<"foo", "bar">>))>>, <<>>)

\* tests/test_subparsers.py: OptArgs
OptArgs ==
    Class("OptArgs", <<Attr("action", Union(<<"FooArgs", "BarArgs", "NoneType">>))>>,
          <<Attr("action", subparsers(<<"foo", "bar">>))>>, <<>>)

\* action: None | FooArgs | BarArgs = subparsers("foo", "bar")
NoneFirstArgs ==
    Class("NoneFirstArgs", <<Attr("action", Union(<<"NoneType", "FooArgs", "BarArgs">>))>>,
          <<Attr("action", subparsers(<<"foo", "bar">>))>>, <<>>)

\* action: FooArgs | None | BarArgs = subparsers("foo", "bar")
NoneMiddleArgs ==
    Class("NoneMiddleArgs", <<Attr("action", Union(<<"FooArgs", "NoneType", "BarArgs">>))>>,
          <<Attr("action", subparsers(<<"foo", "bar">>))>>, <<>>)

\* action: ClashArgs | None = subparsers("sub")
ClashOptArgs ==
    Class("ClashOptArgs", <<Attr("action", Union(<<"ClashArgs", "NoneType">>))>>,
          <<Attr("action", subparsers(<<"sub">>))>>, <<>>)

\* action: ClashReq | FooArgs = subparsers("sub", "foo")
ClashReqArgs ==
    Class("ClashReqArgs", <<Attr("action", Union(<<"ClashReq", "FooArgs">>))>>,
          <<Attr("action", subparsers(<<"sub", "foo">>))>>, <<>>)

\* action: BadArgs | FooArgs = subparsers("bad", "foo")
BadBranchArgs ==
    Class("BadBranchArgs", <<Attr("action", Union(<<"BadArgs", "FooArgs">>))>>,
          <<Attr("action", subparsers(<<"bad", "foo">>))>>, <<>>)

\* tests/test_mutual_exclusion.py: Args of test_tri_flag_inside_subparser
TriBranchArgs ==
    Class("TriBranchArgs", <<Attr("foo_bar", Union(<<"TriArgs", "FooBar">>))>>,
          <<Attr("foo_bar", subparsers(<<"bar", "foobar">>))>>, <<>>)

\* tests/test_flag.py: Args of test_tri_flag, one attribute unadorned and one
\* declared with tri_flag()
TriFlagArgs ==
    Class("TriFlagArgs",
          <<Attr("foo", Optional("bool")), Attr("bar", Optional("bool"))>>,
          <<Attr("bar", PartialTriFlag)>>, <<>>)

option_group == mx_group("option_group", FALSE)

flag_group == mx_group("flag_group", FALSE)

required_group == mx_group("required_group", TRUE)

in_group(partial, group) == [partial EXCEPT !.mx_group = group]

with_default(partial, value) == [partial EXCEPT !.default = value]

\* tests/test_mutual_exclusion.py: Args
MxArgs ==
    Class("MxArgs",
          <<Attr("foo", Optional("str")), Attr("bar", Optional("str")),
            Attr("flag1", Plain("bool")), Attr("flag2", Plain("bool"))>>,
          <<Attr("foo", in_group(PartialOption, option_group)),
            Attr("bar", in_group(PartialOption, option_group)),
            Attr("flag1", in_group(PartialFlag, flag_group)),
            Attr("flag2", in_group(PartialFlag, flag_group))>>, <<>>)

\* two groups whose members alternate in the class body, and a flag in none
MxInterleavedArgs ==
    Class("MxInterleavedArgs",
          <<Attr("a", Plain("bool")), Attr("b", Plain("bool")),
            Attr("c", Plain("bool")), Attr("d", Plain("bool"))>>,
          <<Attr("a", in_group(PartialFlag, flag_group)),
            Attr("b", in_group(PartialFlag, option_group)),
            Attr("c", in_group(PartialFlag, flag_group))>>, <<>>)

\* tests/test_mutual_exclusion.py: Args of test_mutual_exclusion_required
MxRequiredArgs ==
    Class("MxRequiredArgs",
          <<Attr("foo", Optional("str")), Attr("bar", Optional("str"))>>,
          <<Attr("foo", in_group(PartialOption, required_group)),
            Attr("bar", in_group(PartialOption, required_group))>>, <<>>)

\* tests/test_mutual_exclusion.py: Args of test_tri_flag_inside_mx_group
MxTriArgs ==
    Class("MxTriArgs",
          <<Attr("foo", Optional("str")), Attr("bar", Optional("bool"))>>,
          <<Attr("foo", in_group(PartialOption, option_group)),
            Attr("bar", in_group(PartialTriFlag, option_group))>>, <<>>)

\* a defaulted positional and a collection option in one group
MxMixedArgs ==
    Class("MxMixedArgs",
          <<Attr("foo", Plain("str")), Attr("bar", ListOf("int"))>>,
          <<Attr("foo", in_group(with_default(PartialPositional, Str("a")), option_group)),
            Attr("bar", in_group(PartialOption, option_group))>>, <<>>)

\* tests/test_mutual_exclusion.py: test_group_elements_both_nonoptional
MxBothNonoptional ==
    Class("MxBothNonoptional",
          <<Attr("foo", Plain("str")), Attr("bar", Plain("str"))>>,
          <<Attr("foo", in_group(PartialOption, option_group)),
            Attr("bar", in_group(PartialOption, option_group))>>, <<>>)

\* tests/test_mutual_exclusion.py: test_group_elements_some_nonoptional
MxSomeNonoptional ==
    Class("MxSomeNonoptional",
          <<Attr("foo", Plain("str")), Attr("bar", Optional("str"))>>,
          <<Attr("foo", in_group(PartialOption, option_group)),
            Attr("bar", in_group(PartialOption, option_group))>>, <<>>)

\* foo: str = positional(mx_group=group)
MxPositionalNonoptional ==
    Class("MxPositionalNonoptional",
          <<Attr("foo", Plain("str")), Attr("bar", Optional("str"))>>,
          <<Attr("foo", in_group(PartialPositional, option_group)),
            Attr("bar", in_group(PartialOption, option_group))>>, <<>>)

\* foo: str = option(default="a", mx_group=group)
MxDefaultedOption ==
    Class("MxDefaultedOption",
          <<Attr("foo", Plain("str")), Attr("bar", Optional("str"))>>,
          <<Attr("foo", in_group(with_default(PartialOption, Str("a")), option_group)),
            Attr("bar", in_group(PartialOption, option_group))>>, <<>>)


\* tests/test_presence_validations.py: ConfigArgs
ConfigArgs ==
    Class("ConfigArgs",
          <<Attr("list", Plain("bool")), Attr("unset", Plain("bool")),
            Attr("key", Optional("str")), Attr("value", Optional("str"))>>,
          <<Attr("key", PartialPositional), Attr("value", PartialPositional)>>,
          <<Imply("list", <<>>, <<"unset", "key", "value">>),
            Imply("unset", <<"key">>, <<"value">>),
            Require(<<"key", "value">>)>>)

\* a bare default, a negated flag and a flag under two implications
DefaultsArgs ==
    Class("DefaultsArgs",
          <<Attr("mode", Plain("str")), Attr("color", Plain("bool")),
            Attr("debug", Plain("bool"))>>,
          <<Attr("mode", BareDefault(Str("a"))),
            Attr("color", [PartialFlag EXCEPT !.no_flag = TRUE])>>,
          <<Imply("mode", <<"debug">>, <<>>), Imply("color", <<>>, <<"debug">>)>>)

\* out: str | None = option(name_override="output")
OverrideArgs ==
    Class("OverrideArgs",
          <<Attr("out", Optional("str")), Attr("debug", Plain("bool"))>>,
          <<Attr("out", [PartialOption EXCEPT !.name_override = "output"])>>,
          <<Imply("out", <<"debug">>, <<>>)>>)

\* out: str | None = option(name_override="output") under require(cls.out)
OverrideRequireArgs ==
    Class("OverrideRequireArgs",
          <<Attr("out", Optional("str"))>>,
          <<Attr("out", [PartialOption EXCEPT !.name_override = "output"])>>,
          <<Require(<<"out">>)>>)

\* a converted option under a constraint, beside an optional dispatch
\*   action: FooBar | None = subparsers("foobar")
\*   count: int | None
\*   debug: bool
\*   __presence_validations__ = imply(count, required=[debug])
CountArgs ==
    Class("CountArgs",
          <<Attr("action", Union(<<"FooBar", "NoneType">>)),
            Attr("count", Optional("int")), Attr("debug", Plain("bool"))>>,
          <<Attr("action", subparsers(<<"foobar">>))>>,
          <<Imply("count", <<"debug">>, <<>>)>>)

\* tests/test_inheritance.py: Parent1, Parent2 and Argsi of test_inheritance
Parent1 == Class("Parent1", <<Attr("foo", Plain("bool"))>>, <<>>, <<>>)

Parent2 == Class("Parent2", <<Attr("bar", Plain("bool"))>>, <<>>, <<>>)

Argsi == Subclass("Argsi", <<Parent1, Parent2>>, <<Attr("baz", Plain("bool"))>>, <<>>, <<>>)

\* a base and a class derived from it that declares the attribute again
\*   class BaseModeArgs:                     mode: str = "a"
\*   class RedeclaredArgs(BaseModeArgs):     mode: str = "1"
BaseModeArgs ==
    Class("BaseModeArgs", <<Attr("mode", Plain("str"))>>,
          <<Attr("mode", BareDefault(Str("a")))>>, <<>>)

RedeclaredArgs ==
    Subclass("RedeclaredArgs", <<BaseModeArgs>>, <<Attr("mode", Plain("str"))>>,
             <<Attr("mode", BareDefault(Str("1")))>>, <<>>)

\* examples/multiple.py: Args
MultipleArgs ==
    Class("MultipleArgs",
          <<Attr("favorite_things", ListOf("str")), Attr("disliked_numbers", ListOf("int")),
            Attr("liked_movies", ListOf("str"))>>,
          <<Attr("favorite_things", PartialPositional),
            Attr("disliked_numbers",
                 [PartialOption EXCEPT !.short = "-x", !.short_only = TRUE, !.append = TRUE]),
            Attr("liked_movies", [PartialOption EXCEPT !.at_least_one = TRUE])>>, <<>>)

\* tests/test_converter.py: test_csv and test_itemwise, tests/test_multiple.py:
\* test_opt_nargs
\*   strings: list[str] = option(converter=csv())
\*   results: list[Color] = option(converter=itemwise(f))
\*   values: list[int]
ConverterArgs ==
    Class("ConverterArgs",
          <<Attr("strings", ListOf("str")), Attr("results", ListOf("Color")),
            Attr("values", ListOf("int"))>>,
          <<Attr("strings", [PartialOption EXCEPT !.converter = Converter("csv")]),
            Attr("results", [PartialOption EXCEPT !.converter = itemwise("f")])>>, <<>>)

IntList(items) == [tag |-> "list[int]", items |-> items]

\* tests/test_multiple.py: test_append_default, with a defaulted optional
\* positional
\*   values: list[int] = option("-v", append=True, default=[1, 2])
\*   name: str | None = positional(default="a")
AppendDefaultArgs ==
    Class("AppendDefaultArgs",
          <<Attr("values", ListOf("int")), Attr("name", Optional("str"))>>,
          <<Attr("values", [PartialOption EXCEPT !.short = "-v", !.append = TRUE,
                                                 !.default = IntList(<<"1", "2">>)]),
            Attr("name", with_default(PartialPositional, Str("a")))>>, <<>>)

\* tests/test_defaults.py: OptArgs, and a defaulted collection
\*   optional_str: str | None
\*   optional_int: int | None = option(default=1)
\*   values: list[int] = option(default=[1])
NargsDefaultArgs ==
    Class("NargsDefaultArgs",
          <<Attr("optional_str", Optional("str")), Attr("optional_int", Optional("int")),
            Attr("values", ListOf("int"))>>,
          <<Attr("optional_int", with_default(PartialOption, [tag |-> "int", items |-> <<"1">>])),
            Attr("values", with_default(PartialOption, IntList(<<"1">>)))>>, <<>>)

\* tests/test_multiple.py: test_append_at_least_one
\*   values: list[int] = option("-v", append=True, at_least_one=True)
AppendAtLeastOneArgs ==
    Class("AppendAtLeastOneArgs", <<Attr("values", ListOf("int"))>>,
          <<Attr("values", [PartialOption EXCEPT !.short = "-v", !.append = TRUE,
                                                 !.at_least_one = TRUE])>>, <<>>)

\* examples/conversion.py: Args.color; tests/test_auto_converter.py: Args.result,
\* and an enum-typed positional
\*   color: Color
\*   shade: Color | None = positional()
EnumArgs ==
    Class("EnumArgs",
          <<Attr("color", Plain("Color")), Attr("shade", Optional("Color"))>>,
          <<Attr("shade", PartialPositional)>>, <<>>)

\* explicit choices on an enum-typed and on a literal-typed option
\*   picked: Color = option(choices=["red"])
\*   consent: Literal["yes", "no"] = option(choices=["yes"])
ChoicesArgs ==
    Class("ChoicesArgs",
          <<Attr("picked", Plain("Color")), Attr("consent", Literal(<<"yes", "no">>))>>,
          <<Attr("picked", [PartialOption EXCEPT !.choices = Choices(<<"red">>)]),
            Attr("consent", [PartialOption EXCEPT !.choices = Choices(<<"yes">>)])>>,
          <<>>)

\* x: list[bool]
BoolListArgs == Class("BoolListArgs", <<Attr("x", ListOf("bool"))>>, <<>>, <<>>)

\* x: bool | None = option()
BoolOptionalArgs ==
    Class("BoolOptionalArgs", <<Attr("x", Optional("bool"))>>,
          <<Attr("x", PartialOption)>>, <<>>)

\* x: Action, Action a typing.Protocol class
ProtocolArgs == Class("ProtocolArgs", <<Attr("x", Plain("Action"))>>, <<>>, <<>>)

\* examples/conversion.py: Args.result, Args.results, and a Protocol-typed
\* positional with a converter
\*   result: bool | None = option(converter=parse_result)
\*   results: list[bool] = option(converter=itemwise(parse_result))
\*   action: Action | None = positional(converter=f)
ResultArgs ==
    Class("ResultArgs",
          <<Attr("result", Optional("bool")), Attr("results", ListOf("bool")),
            Attr("action", Optional("Action"))>>,
          <<Attr("result", [PartialOption EXCEPT !.converter = Converter("parse_result")]),
            Attr("results", [PartialOption EXCEPT !.converter = itemwise("parse_result")]),
            Attr("action", [PartialPositional EXCEPT !.converter = Converter("f")])>>,
          <<>>)

\* tests/test_invalid.py: test_no_default_for_flag
\*   x: bool = True
ArgsTrue == Class("ArgsTrue", <<Attr("x", Plain("bool"))>>, <<Attr("x", BareDefault(True))>>, <<>>)

\*   x: bool = False
ArgsFalse ==
    Class("ArgsFalse", <<Attr("x", Plain("bool"))>>, <<Attr("x", BareDefault(False))>>, <<>>)

\* x: bool = option(), beside an unadorned flag
BoolOptionArgs ==
    Class("BoolOptionArgs", <<Attr("v", Plain("bool")), Attr("x", Plain("bool"))>>,
          <<Attr("x", PartialOption)>>, <<>>)

\* an unadorned flag beside a bool-typed option with a converter
\*   verbose: bool
\*   result: bool = option(converter=parse_result)
FlagArgs ==
    Class("FlagArgs", <<Attr("verbose", Plain("bool")), Attr("result", Plain("bool"))>>,
          <<Attr("result", [PartialOption EXCEPT !.converter = Converter("parse_result")])>>,
          <<>>)

\* tests/test_subparsers.py: test_only_one_subparsers
\*   foo_or_bar: Foo | Bar = subparsers("foo", "bar")
\*   baz_or_boo: Baz | Boo = subparsers("baz", "boo")
TwoDispatchArgs ==
    Class("TwoDispatchArgs",
          <<Attr("foo_or_bar", Union(<<"FooArgs", "BarArgs">>)),
            Attr("baz_or_boo", Union(<<"FooArgs", "BarArgs">>))>>,
          <<Attr("foo_or_bar", subparsers(<<"foo", "bar">>)),
            Attr("baz_or_boo", subparsers(<<"baz", "boo">>))>>, <<>>)

\* class InheritedDispatchArgs(ReqArgs):
\*   other: FooArgs | BarArgs = subparsers("baz", "boo")
InheritedDispatchArgs ==
    Subclass("InheritedDispatchArgs", <<ReqArgs>>,
             <<Attr("other", Union(<<"FooArgs", "BarArgs">>))>>,
             <<Attr("other", subparsers(<<"baz", "boo">>))>>, <<>>)

\* class OnlyInheritedArgs(ReqArgs):
\*   verbose: bool
OnlyInheritedArgs ==
    Subclass("OnlyInheritedArgs", <<ReqArgs>>, <<Attr("verbose", Plain("bool"))>>,
             <<>>, <<>>)

\* action: FooArgs | BarArgs = subparsers("foo")
TooFewNamesArgs ==
    Class("TooFewNamesArgs", <<Attr("action", Union(<<"FooArgs", "BarArgs">>))>>,
          <<Attr("action", subparsers(<<"foo">>))>>, <<>>)

\* action: FooArgs | BarArgs = subparsers("foo", "bar", "baz")
TooManyNamesArgs ==
    Class("TooManyNamesArgs", <<Attr("action", Union(<<"FooArgs", "BarArgs">>))>>,
          <<Attr("action", subparsers(<<"foo", "bar", "baz">>))>>, <<>>)

\* action: FooArgs | AppendArgs = subparsers("foo", "append")
AppendSiblingArgs ==
    Class("AppendSiblingArgs", <<Attr("action", Union(<<"FooArgs", "AppendArgs">>))>>,
          <<Attr("action", subparsers(<<"foo", "append">>))>>, <<>>)

\* action: FooArgs | ItemsArgs = subparsers("foo", "items")
ItemsSiblingArgs ==
    Class("ItemsSiblingArgs", <<Attr("action", Union(<<"FooArgs", "ItemsArgs">>))>>,
          <<Attr("action", subparsers(<<"foo", "items">>))>>, <<>>)

Shapes ==
    {ReqArgs, OptArgs, NoneFirstArgs, NoneMiddleArgs, ClashOptArgs, ClashReqArgs,
     BadBranchArgs, TriBranchArgs, TriFlagArgs, MxArgs, MxRequiredArgs, MxTriArgs,
     MxMixedArgs, MxBothNonoptional, MxSomeNonoptional, MxPositionalNonoptional,
     MxDefaultedOption, ConfigArgs, DefaultsArgs, OverrideArgs,
     MultipleArgs, ConverterArgs, AppendDefaultArgs, NargsDefaultArgs,
     AppendAtLeastOneArgs, EnumArgs, ChoicesArgs,
     BoolListArgs, BoolOptionalArgs, ProtocolArgs, ResultArgs,
     BadArgs, ArgsTrue, ArgsFalse, BoolOptionArgs, FlagArgs,
     TwoDispatchArgs, InheritedDispatchArgs, OnlyInheritedArgs,
     TooFewNamesArgs, TooManyNamesArgs, AppendSiblingArgs, ItemsSiblingArgs,
     OverrideRequireArgs, CountArgs, Argsi, RedeclaredArgs, MxInterleavedArgs}

-----------------------------------------------------------------------------
(* The specification *)

Init ==
    /\ shape \in Shapes
    /\ pc = "declared"
    /\ parser = NoParser
    /\ tokens = <<>>
    /\ parsed = <<>>
    /\ frames = <<>>
    /\ evaluated = <<>>
    /\ objs = <<>>
    /\ written = <<>>
    /\ returned = <<>>
    /\ error = ""

Next ==
    \/ MakeParser
    \/ ResolveAgain
    \/ ParseArgs
    \/ AppendDefaults
    \/ ReduceTriFlags
    \/ EnterSubparser
    \/ Validate
    \/ Convert
    \/ Instantiate

Spec == Init /\ [][Next]_vars

\* a class statement with one attribute assigned from a helper call
\*   class Args:
\*       <attr>: str = option(<short>, short_only=..., name_override=...)
\*   class Args:
\*       <attr>: bool = flag(<short>, short_only=...)
ClassStatement(attr, kw) ==
    [name |-> "Args", mro |-> <<>>, validations |-> <<>>,
     body |-> [annotations |-> <<Attr(attr, Plain(IF kw.helper = "flag" THEN "bool"
                                                ELSE "str"))>>,
               calls |-> <<Attr(attr, kw)>>]]

\* "-f", "-fo" (tests/test_short.py), and forms without a dash, with two
\* dashes, with the dash alone; <<>> for no short form
ShortForms ==
    {<<>>, <<"-", "f">>, <<"-", "f", "o">>, <<"f">>, <<"-", "-", "f">>, <<"-">>}

AttrNames == {"f", "foo"}

Calls ==
    {Call("option", short, short_only, name_override) :
        short \in ShortForms, short_only \in BOOLEAN, name_override \in {"", "bar"}}
    \cup {Call("flag", short, short_only, "") : short \in ShortForms, short_only \in BOOLEAN}

InitDeclare ==
    /\ shape \in {ClassStatement(attr, kw) : attr \in AttrNames, kw \in Calls}
    /\ pc = "statement"
    /\ parser = NoParser
    /\ tokens = <<>>
    /\ parsed = <<>>
    /\ frames = <<>>
    /\ evaluated = <<>>
    /\ objs = <<>>
    /\ written = <<>>
    /\ returned = <<>>
    /\ error = ""

NextDeclare ==
    \/ DeclareClass
    \/ MakeParser
    \/ ParseArgs
    \/ AppendDefaults
    \/ ReduceTriFlags
    \/ EnterSubparser
    \/ Validate
    \/ Convert
    \/ Instantiate

\* from the class statement to the object parse() returns
SpecDeclare == InitDeclare /\ [][NextDeclare]_vars

-----------------------------------------------------------------------------
(* subparser.py: the dispatch descriptor that registers its branches itself *)

\* defaults.get(key, {})
GetOrEmpty(defaults, key) == IF DictHas(defaults, key) THEN DictGet(defaults, key) ELSE <<>>

\* [typ for typ in subparser_types if typ is not NoneType]
nonnull_subparser_types(subparser_types) ==
    SelectSeq(subparser_types, LAMBDA typ : typ # "NoneType")

\* _Subparsers.apply: the keywords add_subparsers is called with and, for each
\* branch of zip(self.names, nonnull_subparser_types), the name add_parser is
\* called with, the branch type and the defaults its _apply is handed
Subparsers_apply(self, name, subparser_types, defaults) ==
    LET nonnull == nonnull_subparser_types(subparser_types)
        n == IF Len(self.names) < Len(nonnull) THEN Len(self.names) ELSE Len(nonnull)
    IN  [subparsers_kwargs |-> [dest |-> name,
                                required |-> "NoneType" \notin SeqToSet(subparser_types)],
         added |-> [i \in 1..n |->
                       [name |-> self.names[i], subparser_type |-> nonnull[i],
                        defaults |-> GetOrEmpty(defaults, "name")]]]

\* subparsers(*args) assigned to the attribute name of a class whose
\* typehint is the union of subparser_types, applied with defaults
SubparsersCall(names, name, subparser_types, defaults) ==
    [self |-> [names |-> names], name |-> name, subparser_types |-> subparser_types,
     defaults |-> defaults]

\* the sub-mapping stored under a key says which key it was stored under
DefaultsEntries ==
    <<Attr("name", <<Attr("arg1", Str("name"))>>),
      Attr("action", <<Attr("arg1", Str("action"))>>),
      Attr("foo", <<Attr("arg1", Str("foo"))>>)>>

DefaultsMappings ==
    {SelectSeq(DefaultsEntries, LAMBDA e : e.k \in keys) :
        keys \in SUBSET {"name", "action", "foo"}}

SubparsersCalls ==
    {SubparsersCall(names, name, subparser_types, defaults) :
        names \in {<<"foo">>, <<"foo", "bar">>},
        name \in {"action", "name"},
        subparser_types \in {<<"FooArgs", "BarArgs">>, <<"FooArgs", "BarArgs", "NoneType">>,
                             <<"NoneType", "FooArgs", "BarArgs">>},
        defaults \in DefaultsMappings}

\* _Subparsers.apply(parser, name, subparser_types, defaults)
ApplySubparsers ==
    /\ pc = "attribute"
    /\ parser' = Subparsers_apply(shape.self, shape.name, shape.subparser_types,
                                  shape.defaults)
    /\ pc' = "registered"
    /\ UNCHANGED <<shape, written, returned, tokens, parsed, frames, evaluated, objs, error>>

InitSubparsers ==
    /\ shape \in SubparsersCalls
    /\ pc = "attribute"
    /\ parser = NoParser
    /\ tokens = <<>>
    /\ parsed = <<>>
    /\ frames = <<>>
    /\ evaluated = <<>>
    /\ objs = <<>>
    /\ written = <<>>
    /\ returned = <<>>
    /\ error = ""

NextSubparsers == ApplySubparsers

\* a dispatch descriptor registers its branches on the token engine
SpecSubparsers == InitSubparsers /\ [][NextSubparsers]_vars

\* the shapes parse() is called on more than once
RepeatShapes == {AppendDefaultArgs, TriFlagArgs, OptArgs}

InitRepeat ==
    /\ shape \in RepeatShapes
    /\ pc = "declared"
    /\ parser = NoParser
    /\ tokens = <<>>
    /\ parsed = <<>>
    /\ frames = <<>>
    /\ evaluated = <<>>
    /\ objs = <<>>
    /\ written = <<>>
    /\ returned = <<>>
    /\ error = ""

NextRepeat ==
    \/ MakeParser
    \/ ParseArgs
    \/ AppendDefaults
    \/ ReduceTriFlags
    \/ EnterSubparser
    \/ Validate
    \/ Convert
    \/ Instantiate
    \/ ParseAgain

\* any number of parse() calls on one Parser
SpecRepeat == InitRepeat /\ [][NextRepeat]_vars

-----------------------------------------------------------------------------
(* Properties *)

DeclarationErrors == {"InvalidParser", "InvalidArgument", "InvalidTypehint", "MissingConverter"}

\* arcparser() returned a Parser
Constructed == pc \notin {"declared", "decl_error"}

\* parse() has been called and the token engine has read the tokens
Called == pc \notin {"declared", "decl_error", "ready"}

\* the object parse() returned
Result == objs[1]

\* some token is the option string key
Given(key) == \E i \in 1..Len(tokens) : tokens[i].t = "opt" /\ tokens[i].key = key

RECURSIVE AllParsers(_)
\* the Parser and every nested Parser
AllParsers(p) ==
    {p} \cup (IF p.subparsers.present
              THEN UNION {AllParsers(p.subparsers.sub_parsers[i].v) :
                             i \in 1..Len(p.subparsers.sub_parsers)}
              ELSE {})

\* the dispatch the declared shape carries, as the class body states it
Dispatch == _collect_subparsers(shape)

\* the branch shapes of the dispatch union, the absence arm left out
NonAbsent(types) == SelectSeq(types, LAMBDA t : t # "NoneType")

\* the first token names the i-th declared branch
BranchToken(i) ==
    /\ Called /\ tokens # <<>>
    /\ tokens[1] = WordToken(Dispatch.partial_subparsers.names[i])

\* C1: for a name-list dispatch over a union, the i-th declared name is bound
\* to the i-th branch shape of the union that is not the absence arm, wherever
\* None stands in the union, and parsing with the i-th name returns an object
\* whose dispatch attribute is an instance of that shape.
C1_NamesBindBranchesInOrder ==
    (Constructed /\ Dispatch.found) =>
        \A i \in 1..Len(Dispatch.partial_subparsers.names) :
            /\ i <= Len(parser.subparsers.sub_parsers)
            /\ parser.subparsers.sub_parsers[i].k = Dispatch.partial_subparsers.names[i]
            /\ parser.subparsers.sub_parsers[i].v.shape = NonAbsent(Dispatch.typehint.args)[i]
            /\ BranchToken(i) => error # "TypeError"
            /\ (BranchToken(i) /\ pc = "done") =>
                   Get(Result.attrs, Dispatch.name) = Inst(NonAbsent(Dispatch.typehint.args)[i])

\* a branch name is the first token
BranchChosen ==
    /\ Called /\ tokens # <<>> /\ tokens[1].t = "word"
    /\ tokens[1].vals[1] \in SeqToSet(Dispatch.partial_subparsers.names)

\* C2: a dispatch is required exactly when its union has no absence arm; a
\* required dispatch with no branch token ends in the token engine's exit, an
\* optional one with no branch token leaves the dispatch attribute None, and
\* with a branch token the dispatch attribute is an instance of the shape of
\* that branch.
C2_DispatchStateMachine ==
    (Constructed /\ Dispatch.found) =>
        /\ parser.subparsers.required = ~union_contains_none(Dispatch.typehint)
        /\ (Called /\ ~BranchChosen /\ parser.subparsers.required) => pc = "exit"
        /\ (pc = "done" /\ ~BranchChosen) => Get(Result.attrs, Dispatch.name) = None
        /\ (BranchChosen /\ pc = "raised") => error \in {"ValueError", "Exception"}
        /\ (BranchChosen /\ pc = "done") =>
               Get(Result.attrs, Dispatch.name)
                   = Inst(DictGet(parser.subparsers.sub_parsers, tokens[1].vals[1]).shape)

\* the tri-flags a Parser resolves for its own shape
TriFlagsOf(p) ==
    {a.k : a \in {b \in SeqToSet(p.arguments \o GroupArguments(p.mx_groups)) :
                     b.v.cls = "TriFlag"}}

\* what the tokens say about the tri-flag name
Ternary(name) ==
    IF Given("--" \o name) THEN True
    ELSE IF Given("--no-" \o name) THEN False
    ELSE None

GroupMembers ==
    {m \in SeqToSet(_collect_partial_arguments(shape).arguments) :
        m.v.argument.mx_group # NoGroup}

\* a value argument of a type neither optional nor a collection, with no default
Undefaulted(m) ==
    /\ m.v.argument.cls \in {"PartialOption", "PartialPositional"}
    /\ extract_optional_type(m.v.typehint) = NoType
    /\ extract_collection_type(m.v.typehint) = NoType
    /\ m.v.argument.default = void

\* C4: resolving a shape raises InvalidArgument for a member of a mutually
\* exclusive group exactly when the member is an option or positional whose
\* type is neither optional nor a collection and which declares no default.
C4_GroupMemberRejectedIffUndefaulted ==
    (pc \in {"ready", "decl_error"} /\ GroupMembers # {}) =>
        (error = "InvalidArgument" <=> \E m \in GroupMembers : Undefaulted(m))

\* the token tok supplies the group member name
Supplies(tok, name, arg) ==
    IF arg.cls = "Positional" THEN tok.t = "word"
    ELSE tok.t = "opt"
         /\ \E a \in SeqToSet(ArgumentActions(arg, name, "")) : a.key = tok.key

Supplied(name, arg) == \E i \in 1..Len(tokens) : Supplies(tokens[i], name, arg)

\* the value the last supplying token stands for
ParsedValue(name, arg) ==
    LET last == CHOOSE i \in 1..Len(tokens) :
                    /\ Supplies(tokens[i], name, arg)
                    /\ \A j \in (i + 1)..Len(tokens) : ~Supplies(tokens[j], name, arg)
        raw == IF arg.nargs \in {"*", "+"} THEN StrList(tokens[last].vals)
               ELSE Str(tokens[last].vals[1])
    IN  CASE arg.cls = "Flag" -> Bool(~arg.no_flag)
          [] arg.cls = "TriFlag" -> Ternary(name)
          [] arg.converter = NoConverter -> raw
          [] OTHER -> Converted(arg.converter, raw)

\* the value of a member nothing was supplied for
AtDefault(arg) ==
    CASE arg.cls = "Flag" -> Bool(arg.no_flag)
      [] arg.cls = "TriFlag" -> None
      [] OTHER -> EngineDefault(arg)

MembersSupplied(g) == {m \in SeqToSet(g.arguments) : Supplied(m.k, m.v)}

\* C5: each group is one mutually exclusive unit of the token engine holding
\* exactly its members; a parse the engine accepts has at most one member of a
\* group supplied, exactly one for a required group; on the result the supplied
\* member has its parsed value and every sibling its default; one member each
\* of two different groups may be supplied together.
C5_GroupIsOneExclusiveUnit ==
    Constructed =>
        \A g \in SeqToSet(parser.mx_groups) :
            /\ {a \in SeqToSet(Parser_apply(parser)) : a.group = g.id}
                   = SeqToSet(ApplyArguments(g.arguments, g.id))
            /\ (Called /\ pc # "exit") =>
                   /\ Cardinality(MembersSupplied(g)) <= 1
                   /\ g.required => Cardinality(MembersSupplied(g)) = 1
            /\ pc = "done" =>
                   \A m \in SeqToSet(g.arguments) :
                       DictGet(Result.attrs, m.k)
                           = IF Supplied(m.k, m.v) THEN ParsedValue(m.k, m.v)
                             ELSE AtDefault(m.v)
            /\ \A h \in SeqToSet(parser.mx_groups) :
                   (/\ h # g /\ Called /\ Len(tokens) = 2
                    /\ \E m \in SeqToSet(g.arguments) : Supplies(tokens[1], m.k, m.v)
                    /\ \E m \in SeqToSet(h.arguments) : Supplies(tokens[2], m.k, m.v))
                   => pc # "exit"

C5_Witness ==
    /\ pc = "done" /\ shape = MxArgs
    /\ tokens = <<OptToken("--foo", <<"a">>), OptToken("--flag2", <<>>)>>
    /\ DictGet(Result.attrs, "foo") = Str("a")
    /\ DictGet(Result.attrs, "bar") = None
    /\ DictGet(Result.attrs, "flag1") = False
    /\ DictGet(Result.attrs, "flag2") = True


\* what validate_with evaluated for the shape s, in order
EntriesOf(s) == SelectSeq(evaluated, LAMBDA e : e.shape = s)

\* is_provided holds of the argument the handle names
IsProvided(p, handle, mapping) == Provided(p.arguments, handle, mapping).val

\* the constraint matches: a Require, or an Imply whose trigger is provided
Matches(p, c, mapping) == c.kind = "require" \/ IsProvided(p, c.arg, mapping)

\* C6: the constraints are evaluated in the order the shape yields them; once
\* one matches no later constraint is evaluated; an Imply whose trigger is not
\* provided raises nothing and evaluation goes on with the next constraint.
C6_FirstMatchShortCircuits ==
    \A p \in AllParsers(parser) :
        \A i \in 1..Len(EntriesOf(p.shape)) :
            LET e == EntriesOf(p.shape)[i]
                c == p.validations[i]
            IN  /\ e.index = i
                /\ Matches(p, c, e.mapping) => i = Len(EntriesOf(p.shape))
                /\ ~Matches(p, c, e.mapping) =>
                       /\ e.outcome = "skip"
                       /\ i < Len(p.validations) => i < Len(EntriesOf(p.shape))

C6_Witness ==
    /\ pc = "done" /\ shape = ConfigArgs
    /\ tokens = <<OptToken("--unset", <<>>), WordToken("a")>>
    /\ Len(evaluated) = 2
    /\ evaluated[1].outcome = "skip" /\ evaluated[2].outcome = "match"
    /\ RequireConstraint_validate(ConfigArgs.validations[3], parser.arguments,
                                  evaluated[2].mapping) = "raise"

\* the members of a Require that are provided
RequireProvided(p, c, mapping) ==
    {i \in 1..Len(c.args) : IsProvided(p, c.args[i], mapping)}

RequireEntries(p) ==
    {i \in 1..Len(EntriesOf(p.shape)) : p.validations[i].kind = "require"}

\* C7 as stated: a Require reached with none of its members provided is
\* satisfied and raises nothing; with some but not all it raises; with all it
\* passes.
C7_RequireSatisfiedByNone ==
    \A p \in AllParsers(parser) : \A i \in RequireEntries(p) :
        LET e == EntriesOf(p.shape)[i]
            n == Cardinality(RequireProvided(p, p.validations[i], e.mapping))
        IN  e.outcome = IF 0 < n /\ n < Len(p.validations[i].args) THEN "raise" ELSE "match"

\* C7: a Require that is reached passes exactly when every member is provided
\* and raises a validation error when none or only some are.
C7_RequireAllOrError ==
    \A p \in AllParsers(parser) : \A i \in RequireEntries(p) :
        LET e == EntriesOf(p.shape)[i]
            n == Cardinality(RequireProvided(p, p.validations[i], e.mapping))
        IN  e.outcome = IF n = Len(p.validations[i].args) THEN "match" ELSE "raise"

C7_Witness ==
    /\ pc = "raised" /\ error = "Exception" /\ shape = ConfigArgs /\ tokens = <<>>
    /\ Len(evaluated) = 3 /\ evaluated[3].outcome = "raise"
    /\ RequireProvided(parser, ConfigArgs.validations[3], evaluated[3].mapping) = {}

ImplyEntries(p) ==
    {i \in 1..Len(EntriesOf(p.shape)) : p.validations[i].kind = "imply"}

\* a required member is not provided, or a disallowed member is
Broken(p, c, mapping) ==
    \/ \E j \in 1..Len(c.required) : ~IsProvided(p, c.required[j], mapping)
    \/ \E j \in 1..Len(c.disallowed) : IsProvided(p, c.disallowed[j], mapping)

\* C8: an Imply whose trigger is provided raises a validation error if a
\* required member is not provided or a disallowed member is provided, and
\* matches otherwise; an Imply whose trigger is not provided never raises.
C8_ImplyRaisesIffBroken ==
    \A p \in AllParsers(parser) : \A i \in ImplyEntries(p) :
        LET e == EntriesOf(p.shape)[i]
            c == p.validations[i]
        IN  e.outcome = IF ~IsProvided(p, c.arg, e.mapping) THEN "skip"
                        ELSE IF Broken(p, c, e.mapping) THEN "raise"
                        ELSE "match"

C8_Witness ==
    /\ pc = "raised" /\ error = "Exception" /\ shape = ConfigArgs
    /\ tokens = <<OptToken("--list", <<>>), WordToken("a")>>
    /\ Len(evaluated) = 1 /\ evaluated[1].outcome = "raise"
    /\ IsProvided(parser, "key", evaluated[1].mapping)

\* the value an argument has when the user gave nothing for it
AtRest(arg) ==
    IF arg.cls = "Flag" THEN Bool(arg.no_flag) ELSE arg.default

\* C9: is_provided is true exactly when the mapping holds, for the argument, a
\* value that is not None and differs from the at-rest value: False for a flag,
\* True for a negated flag, the declared default for a value argument.
C9_ProvidedIffNotAtRest ==
    \A p \in AllParsers(parser) :
        \A i \in 1..Len(EntriesOf(p.shape)) :
            \A handle \in HandlesOf(p.validations[i]) :
                LET mapping == EntriesOf(p.shape)[i].mapping
                    arg == DictGet(p.arguments, handle)
                IN  is_provided(arg, handle, mapping)
                        = [err |-> "",
                           val |-> /\ Get(mapping, handle) # None
                                   /\ Get(mapping, handle) # AtRest(arg)]

\* C10: every declaration error is raised while arcparser() constructs the
\* Parser; parse() on a constructed Parser never raises one.
C10_DeclarationErrorsAtConstruction ==
    Constructed => error \notin DeclarationErrors


\* the class a Parser of the tree was resolved from
ShapeOf(p) == IF p.shape = shape.name THEN shape ELSE ClassByName(p.shape)

\* the attributes of a Parser's shape as declared: name -> [typehint, argument]
Declared(p) == _collect_partial_arguments(ShapeOf(p)).arguments

\* the resolved descriptors of a Parser itself, grouped or not
OwnArguments(p) == p.arguments \o GroupArguments(p.mx_groups)

IsValuePartial(partial) == partial.cls \in {"PartialPositional", "PartialOption"}

\* the collection-typed value attributes of a Parser
CollectionTyped(p) ==
    {i \in 1..Len(OwnArguments(p)) :
        LET d == DictGet(Declared(p), OwnArguments(p)[i].k)
        IN  IsValuePartial(d.argument) /\ extract_collection_type(d.typehint) # NoType}

\* C11: a collection-typed positional or option of any element type with no
\* explicit converter or with an itemwise one resolves to a multi-token
\* argument: nargs "+" with at_least_one and "*" without, or append mode for an
\* option declared with append=True; with an explicit converter that is not
\* itemwise it consumes a single token.
C11_CollectionsAreMultiToken ==
    \A p \in AllParsers(parser) : \A i \in CollectionTyped(p) :
        LET arg == OwnArguments(p)[i].v
            partial == DictGet(Declared(p), OwnArguments(p)[i].k).argument
        IN  IF partial.converter = NoConverter \/ partial.converter.itemwise
            THEN IF partial.cls = "PartialOption" /\ partial.append
                 THEN arg.append /\ arg.nargs = ""
                 ELSE arg.nargs = (IF partial.at_least_one THEN "+" ELSE "*")
            ELSE arg.nargs = "" /\ ~arg.append


\* the value attributes of the root shape that may be left out: an optional
\* type, a collection type or a declared default
MayBeAbsent(d) ==
    /\ IsValuePartial(d.argument)
    /\ \/ extract_optional_type(d.typehint) # NoType
       \/ extract_collection_type(d.typehint) # NoType
       \/ d.argument.default # void

\* what parse([]) is to yield for such an attribute
DeclaredDefault(d) ==
    IF d.argument.default # void THEN d.argument.default
    ELSE IF extract_optional_type(d.typehint) # NoType THEN None
    ELSE StrList(<<>>)

\* C12: parse([]) yields, for every optional positional or option, collections
\* and append-mode options included, the declared default when one is declared,
\* and None (optional type) or the empty list (collection type) only when none
\* is declared.
C12_AbsentYieldsDeclaredDefault ==
    (pc = "done" /\ tokens = <<>>) =>
        \A i \in 1..Len(Declared(parser)) :
            LET name == Declared(parser)[i].k
                d == Declared(parser)[i].v
            IN  MayBeAbsent(d) => Get(Result.attrs, name) = DeclaredDefault(d)


\* an option as the claim has it required: a plain type with no default, or
\* at_least_one
RequiredAsDeclared(d) ==
    \/ /\ extract_optional_type(d.typehint) = NoType
       /\ extract_collection_type(d.typehint) = NoType
       /\ d.argument.default = void
    \/ d.argument.at_least_one

\* the collection-typed options of the root shape that are optional, declare
\* no default and get no token
AbsentCollectionOptions ==
    {i \in 1..Len(OwnArguments(parser)) :
        LET name == OwnArguments(parser)[i].k
            arg == OwnArguments(parser)[i].v
            d == DictGet(Declared(parser), name)
        IN  /\ arg.cls = "Option"
            /\ extract_collection_type(d.typehint) # NoType
            /\ ~d.argument.at_least_one /\ d.argument.default = void
            /\ ~Given(OptionString(arg, name))}

WrittenInto ==
    {a \in SeqToSet(shape.mro[1].vars) :
        /\ IsPartialArgument(a.v)
        /\ \E b \in SeqToSet(CurrentClass(shape.name).mro[1].vars) : b.k = a.k /\ b.v # a.v}

\* C15: once a shape has resolved to a Parser and the resolution has written
\* the inferred converters and choices back into the partial descriptors,
\* resolving the shape again yields an equal Parser: the same arguments,
\* groups and dispatch, and per descriptor the same requirement, default,
\* converter, choices and multiplicity
C15_ResolveTwiceSameParser ==
    pc = "ready" =>
        LET again == arcparser(CurrentClass(shape.name))
        IN  again.err = "" /\ again.parser = parser

\* a Parser resolved from a shape with a partial descriptor whose inferred
\* converter was written back
C15_Witness ==
    /\ pc = "ready"
    /\ \E a \in WrittenInto :
          \E b \in SeqToSet(CurrentClass(shape.name).mro[1].vars) :
             b.k = a.k /\ a.v.converter = NoConverter /\ b.v.converter # NoConverter


\* the declared options of the shape that set both append and at_least_one
AppendAtLeastOne ==
    LET declared == _collect_partial_arguments(shape).arguments
    IN  {i \in 1..Len(declared) :
            /\ declared[i].v.argument.cls = "PartialOption"
            /\ declared[i].v.argument.append
            /\ declared[i].v.argument.at_least_one}

\* the values the occurrences of the option string key carry, in order
Occurrences(key) ==
    LET given == SelectSeq(tokens, LAMBDA tok : tok.t = "opt" /\ tok.key = key)
    IN  [i \in 1..Len(given) |-> given[i].vals[1]]

\* C16 as stated: a shape declaring an option with both append and
\* at_least_one does not resolve, arcparser() raises InvalidArgument
C16_AppendAtLeastOneRejected ==
    (pc # "declared" /\ AppendAtLeastOne # {})
        => pc = "decl_error" /\ error = "InvalidArgument"

\* C16: an option declared with both append and at_least_one resolves as the
\* same declaration without append does (no error on account of the pair);
\* the resolved option is required and, for a collection with an itemwise
\* converter, in append mode; with no default declared, a parse without an
\* occurrence is the token engine's exit and a parse that returns has the
\* converted values of the occurrences in order
C16_AppendAtLeastOneAccepted ==
    \A i \in AppendAtLeastOne :
        LET declared == _collect_partial_arguments(shape).arguments
            name == declared[i].k
            d == declared[i].v
            without == [d.argument EXCEPT !.append = FALSE]
        IN  /\ resolve_with_typehint(d.argument, name, d.typehint).err
                  = resolve_with_typehint(without, name, d.typehint).err
            /\ (Constructed /\ pc # "declared" /\ d.argument.mx_group = NoGroup) =>
                  LET arg == DictGet(parser.arguments, name)
                      key == OptionString(arg, name)
                  IN  /\ ~arg.optional
                      /\ (extract_collection_type(d.typehint) # NoType
                          /\ arg.converter.itemwise) => (arg.append /\ arg.nargs = "")
                      /\ (Called /\ d.argument.default = void /\ ~Given(key))
                             => pc = "exit"
                      /\ (pc = "done" /\ arg.append /\ Given(key)) =>
                             Get(Result.attrs, name)
                                 = Converted(arg.converter, StrList(Occurrences(key)))

\* parse() returned the values of two occurrences of an option declared with
\* both append and at_least_one
C16_Witness ==
    /\ AppendAtLeastOne # {}
    /\ pc = "done"
    /\ Len(tokens) = 2
    /\ Len(Get(Result.attrs, "values").items) = 2


\* the value arguments of p whose declared type, the optional layer
\* unwrapped, is a StrEnum and that declare no converter
EnumTyped(p) ==
    {i \in 1..Len(OwnArguments(p)) :
        LET d == DictGet(Declared(p), OwnArguments(p)[i].k)
        IN  /\ IsValuePartial(d.argument)
            /\ d.argument.converter = NoConverter
            /\ extract_collection_type(d.typehint) = NoType
            /\ extract_type_from_typehint(d.typehint) \in StrEnumTypes}

\* C17: an option or positional typed as a StrEnum with no explicit converter
\* resolves to a descriptor whose choices are the member strings and whose
\* converter is the enum constructor, and the object parse() returns holds
\* for a supplied token the enum member, not the plain string
C17_StrEnumChoicesAndConverter ==
    /\ \A p \in AllParsers(parser) : \A i \in EnumTyped(p) :
          LET arg == OwnArguments(p)[i].v
              type_ == extract_type_from_typehint(
                           DictGet(Declared(p), OwnArguments(p)[i].k).typehint)
          IN  /\ arg.choices # None
              /\ SeqToSet(arg.choices.items) = SeqToSet(EnumMembers(type_))
              /\ arg.converter = Converter(type_)
    /\ pc = "done" => \A i \in EnumTyped(parser) :
          LET name == OwnArguments(parser)[i].k
              arg == OwnArguments(parser)[i].v
              type_ == extract_type_from_typehint(DictGet(Declared(parser), name).typehint)
          IN  Supplied(name, arg) =>
                  Get(Result.attrs, name).tag = type_


\* the value arguments of p
ValueArguments(p) ==
    {i \in 1..Len(OwnArguments(p)) :
        IsValuePartial(DictGet(Declared(p), OwnArguments(p)[i].k).argument)}

\* C18: the resolved descriptor carries the converter and the choices the
\* partial descriptor declares, whatever the declared type; a converter or
\* choices derived from the type appear only where none is declared
C18_ExplicitFieldsKept ==
    \A p \in AllParsers(parser) : \A i \in ValueArguments(p) :
        LET arg == OwnArguments(p)[i].v
            partial == DictGet(Declared(p), OwnArguments(p)[i].k).argument
        IN  /\ partial.converter # NoConverter => arg.converter = partial.converter
            /\ partial.choices # None => arg.choices = partial.choices


\* the attributes of the declared shape with the value the class body gives
\* them
Params ==
    CollectDefaults(MergedVars(shape.mro, <<>>),
                    CollectTypehints(Reverse(shape.mro), <<>>)).params

\* a value argument: an implicit option or one built by option() or
\* positional(), not typed exactly bool
IsValueParam(param) ==
    /\ param.value.cls \in {"void", "value", "PartialOption", "PartialPositional"}
    /\ param.typehint # Plain("bool")

\* the value arguments whose inner type cannot convert a token by itself
Unconvertible ==
    {i \in 1..Len(Params) :
        /\ IsValueParam(Params[i].v)
        /\ extract_type_from_typehint(Params[i].v.typehint) \in {"bool"} \cup ProtocolTypes}

\* C19: a shape with a value argument whose inner type is bool or a Protocol
\* class and that declares no converter does not resolve, arcparser() raises
\* MissingConverter; with a converter declared such an argument resolves
C19_MissingConverterForBoolAndProtocol ==
    pc # "declared" =>
        /\ (\E i \in Unconvertible : Params[i].v.value.converter = NoConverter)
              => (pc = "decl_error" /\ error = "MissingConverter")
        /\ (Unconvertible # {}
            /\ \A i \in Unconvertible : Params[i].v.value.converter # NoConverter)
              => (Constructed /\ \A i \in Unconvertible :
                                    DictHas(parser.arguments, Params[i].k))


\* the attributes of the declared shape typed exactly bool
ExactBool == {i \in 1..Len(Params) : Params[i].v.typehint = Plain("bool")}

\* C20: of the attributes typed exactly bool, one with a bare default makes
\* arcparser() raise InvalidArgument, one declared through positional() or
\* option() without a converter makes it raise InvalidTypehint, and an
\* unadorned one resolves to a Flag which an argument vector that does not
\* name it leaves False on the returned object
C20_ExactBool ==
    pc # "declared" => \A i \in ExactBool :
        LET name == Params[i].k
            value == Params[i].v.value
        IN  /\ value.cls = "value"
                  => (pc = "decl_error" /\ error = "InvalidArgument")
            /\ (value.cls \in {"PartialPositional", "PartialOption"}
                /\ value.converter = NoConverter)
                  => (pc = "decl_error" /\ error = "InvalidTypehint")
            /\ (value.cls = "void" /\ Constructed) =>
                  /\ DictHas(parser.arguments, name)
                  /\ DictGet(parser.arguments, name).cls = "Flag"
                  /\ ~DictGet(parser.arguments, name).no_flag
                  /\ (pc = "done" /\ ~Supplied(name, DictGet(parser.arguments, name)))
                        => Get(Result.attrs, name) = False

\* parse() returned for a shape with an unadorned bool attribute that the
\* argument vector does not name
C20_Witness ==
    /\ pc = "done"
    /\ \E i \in ExactBool :
          /\ Params[i].v.value.cls = "void"
          /\ ~Supplied(Params[i].k, DictGet(parser.arguments, Params[i].k))
          /\ Get(Result.attrs, Params[i].k) = False


\* the attribute names the class hierarchy of the shape declares a dispatch
\* under
DispatchNames ==
    UNION {{a.k : a \in {b \in SeqToSet(shape.mro[i].vars) : b.v.cls = "PartialSubparsers"}} :
              i \in 1..Len(shape.mro)}

\* C21: a shape whose class hierarchy declares two or more dispatches does not
\* resolve, arcparser() raises InvalidParser; a shape that declares exactly one
\* raises no InvalidParser and the Parser it resolves to has that dispatch
C21_AtMostOneDispatch ==
    pc # "declared" =>
        /\ Cardinality(DispatchNames) >= 2
              => (pc = "decl_error" /\ error = "InvalidParser")
        /\ Cardinality(DispatchNames) = 1 =>
              /\ ~(pc = "decl_error" /\ error = "InvalidParser")
              /\ Constructed => (parser.subparsers.present
                                 /\ parser.subparsers.name \in DispatchNames)


\* the shape declares a name-list dispatch over a union
NameListDispatch ==
    /\ Dispatch.found
    /\ Dispatch.partial_subparsers.shapes = <<>>
    /\ Dispatch.typehint.origin = "Union"

\* C22: a name-list dispatch with more or fewer names than its union has
\* branch shapes that are not the absence arm does not resolve, arcparser()
\* raises a declaration error; in a Parser that is resolved every declared name
\* is a branch name and every such branch shape is the shape of a branch
C22_NameCountMismatchRejected ==
    (pc # "declared" /\ NameListDispatch) =>
        LET names == Dispatch.partial_subparsers.names
            shapes == NonAbsent(Dispatch.typehint.args)
            sub_parsers == parser.subparsers.sub_parsers
        IN  /\ Len(names) # Len(shapes)
                  => (pc = "decl_error" /\ error \in DeclarationErrors)
            /\ Constructed =>
                  /\ SeqToSet(names) = {sub_parsers[i].k : i \in 1..Len(sub_parsers)}
                  /\ SeqToSet(shapes) = {sub_parsers[i].v.shape : i \in 1..Len(sub_parsers)}


\* the helper call of the class statement and the attribute it is assigned to
TheCall == shape.body.calls[1].v

TheAttr == shape.body.calls[1].k

\* the call asks for the short form only and gives none
ShortOnlyWithoutShort == TheCall.short_only /\ TheCall.short = <<>>

\* C23: an option or flag declared short_only with no short form resolves
\* exactly when the attribute name is one character long, the option string
\* then being the dash and the name, and otherwise arcparser() raises
\* InvalidArgument; option(short_only=True, name_override=...) raises
\* InvalidArgument in the class body, before there is a shape to resolve
C23_ShortOnlyNeedsShortOrOneCharacter ==
    /\ (pc # "statement" /\ TheCall.short_only /\ TheCall.name_override # "")
          => (pc = "body_error" /\ error = "InvalidArgument")
    /\ (pc \notin {"statement", "declared"} /\ ShortOnlyWithoutShort
        /\ TheCall.name_override = "") =>
          IF Len(TheAttr) = 1
          THEN /\ pc \notin {"body_error", "decl_error"}
               /\ DictGet(parser.arguments, TheAttr).short_only
               /\ OptionString(DictGet(parser.arguments, TheAttr), TheAttr) = "-" \o TheAttr
          ELSE pc = "decl_error" /\ error = "InvalidArgument"

\* parse() returned for a one-character attribute declared short_only with
\* no short form, given its synthesized option string
C23_Witness ==
    /\ pc = "done"
    /\ ShortOnlyWithoutShort
    /\ Given("-" \o TheAttr)


\* C24: option() and flag() accept as a short form only the dash followed by
\* one character that is no dash; given any other short form, one with two
\* characters after the dash included, the call raises InvalidArgument in the
\* class body
C24_ShortFormIsOneCharacter ==
    (pc # "statement" /\ TheCall.short # <<>>) =>
        IF Len(TheCall.short) = 2 /\ TheCall.short[1] = "-" /\ TheCall.short[2] # "-"
        THEN pc = "body_error" <=> (TheCall.short_only /\ TheCall.name_override # "")
        ELSE pc = "body_error" /\ error = "InvalidArgument"


\* the arguments of the branches that were not chosen
UnchosenArguments ==
    LET sub_parsers == parser.subparsers.sub_parsers
    IN  UNION {SeqToSet(all_arguments(sub_parsers[i].v)) :
                  i \in {j \in 1..Len(sub_parsers) : sub_parsers[j].k # tokens[1].vals[1]}}

\* C25: with a branch chosen, parse() fails only by what the chosen branch and
\* the root are given (never with a KeyError or AssertionError met on an
\* argument of an unchosen branch), an accepted argument vector whose values
\* convert returns, and the returned object holds the chosen branch's instance
C25_UnchosenBranchesIgnored ==
    (Constructed /\ Dispatch.found /\ BranchChosen
     /\ DictHas(parser.subparsers.sub_parsers, tokens[1].vals[1])) =>
        /\ (pc = "raised" /\ UnchosenArguments # {}) => error \notin {"KeyError", "AssertionError"}
        /\ pc = "done" =>
              Get(Result.attrs, Dispatch.name)
                  = Inst(DictGet(parser.subparsers.sub_parsers, tokens[1].vals[1]).shape)


\* the attribute names an option of p that was declared with name_override
Overridden(p, handle) ==
    LET arg == DictGet(p.arguments, handle)
    IN  arg.cls = "Option" /\ arg.name # "" /\ arg.name # handle

\* the user supplied the option the attribute of p is registered as
OverriddenGiven(p, handle) == Given("--" \o DictGet(p.arguments, handle).name)

\* C26: for an option declared with name_override, an Imply whose trigger is
\* that option matches (or raises on its members) exactly when the user
\* supplied the option, and a Require listing only such options passes when
\* they were supplied
C26_OverriddenOptionProvided ==
    \A p \in AllParsers(parser) :
        \A i \in 1..Len(EntriesOf(p.shape)) :
            LET e == EntriesOf(p.shape)[i]
                c == p.validations[e.index]
            IN  /\ (c.kind = "imply" /\ Overridden(p, c.arg)) =>
                      ((e.outcome # "skip") <=> OverriddenGiven(p, c.arg))
                /\ (/\ c.kind = "require"
                    /\ \A j \in 1..Len(c.args) :
                          Overridden(p, c.args[j]) /\ OverriddenGiven(p, c.args[j])) =>
                      e.outcome = "match"


\* the Parser of the tree that was resolved from the shape s
ParserFor(s) == CHOOSE p \in AllParsers(parser) : p.shape = s

\* a value as the token engine or a declared default leaves it
Unconverted(arg, value) ==
    value.tag \in {"None", "void", "str", ListTag("str")} \/ value = arg.default

\* the mapping holds no converted value for a value argument of p itself
OwnValuesUnconverted(p, mapping) ==
    \A i \in 1..Len(OwnArguments(p)) :
        LET a == OwnArguments(p)[i]
        IN  (IsValueArgument(a.v) /\ DictHas(mapping, a.k)) =>
                Unconverted(a.v, DictGet(mapping, a.k))

\* the branch chosen on p, if any, is in the mapping as its object
BranchReconstructed(p, mapping) ==
    (p.subparsers.present /\ Truthy(Get(mapping, p.subparsers.name))) =>
        Get(mapping, p.subparsers.name).tag = "inst"

Instantiated == {objs[i].shape : i \in 1..Len(objs)}

\* C27: the presence constraints of a shape are evaluated on the parsed
\* mapping once the chosen branch is an object in it, while none of the
\* shape's own values is converted and the shape has no object yet; a shape
\* with constraints is never instantiated without them having been
\* evaluated, and a violated constraint ends parse() with an ordinary
\* Exception and without an object of the shape
C27_ValidationBeforeConversion ==
    /\ \A i \in 1..Len(evaluated) :
          /\ OwnValuesUnconverted(ParserFor(evaluated[i].shape), evaluated[i].mapping)
          /\ BranchReconstructed(ParserFor(evaluated[i].shape), evaluated[i].mapping)
    /\ (pc = "construct" /\ Top.phase \in {"sub", "validate"}) =>
          /\ Top.parser.shape \notin Instantiated
          /\ OwnValuesUnconverted(Top.parser, parsed)
          /\ Top.phase = "validate" => BranchReconstructed(Top.parser, parsed)
    /\ \A s \in Instantiated :
          ParserFor(s).validations # <<>> =>
              /\ EntriesOf(s) # <<>>
              /\ \A i \in 1..Len(EntriesOf(s)) : EntriesOf(s)[i].outcome # "raise"
    /\ (evaluated # <<>> /\ evaluated[Len(evaluated)].outcome = "raise") =>
          /\ pc = "raised" /\ error = "Exception"
          /\ evaluated[Len(evaluated)].shape \notin Instantiated
          /\ shape.name \notin Instantiated

\* a constraint of the root is violated with the branch already an object and
\* the converted option still the token
C27_Witness ==
    /\ shape.name = "CountArgs" /\ pc = "raised" /\ error = "Exception"
    /\ Get(parsed, "action") = Inst("FooBar")
    /\ Get(parsed, "count") = Str("1")
    /\ evaluated[Len(evaluated)].shape = "CountArgs"
    /\ "FooBar" \in Instantiated


\* the classes of the shape's hierarchy, most derived first, that annotate
\* the attribute, and those that assign it in their body
Annotating(name) == SelectSeq(shape.mro, LAMBDA body : DictHas(body.annotations, name))

Assigning(name) == SelectSeq(shape.mro, LAMBDA body : DictHas(body.vars, name))

\* C28: arguments are collected from the whole hierarchy of a shape, and an
\* attribute a derived class declares again is resolved with the typehint and
\* with the default or descriptor of the most-derived declaration
C28_MostDerivedDeclarationWins ==
    /\ \A i \in 1..Len(shape.mro) :
          DictKeys(shape.mro[i].annotations) \subseteq DictKeys(Params)
    /\ \A i \in 1..Len(Params) :
          LET name == Params[i].k
          IN  /\ Params[i].v.typehint = DictGet(Annotating(name)[1].annotations, name)
              /\ Params[i].v.value = IF Assigning(name) = <<>> THEN Unassigned
                                     ELSE DictGet(Assigning(name)[1].vars, name)


\* the names a dict holds, in its order
KeySeq(dict_) == [i \in 1..Len(dict_) |-> dict_[i].k]

\* the attributes of p declared under the group tag, in declaration order
DeclaredIn(p, id) ==
    KeySeq(SelectSeq(Declared(p), LAMBDA d : d.v.argument.mx_group.id = id))

\* the groups of p that hold the attribute
GroupsHolding(p, name) ==
    {i \in 1..Len(p.mx_groups) : DictHas(p.mx_groups[i].arguments, name)}

\* C29: after resolution every argument of a shape is in exactly one place,
\* Parser.arguments when it names no group and otherwise the one MxGroup of
\* its tag; there is one MxGroup per distinct tag, with its members in
\* declaration order, and the members of a group are registered on the token
\* engine inside the group's unit, never on the parser itself
C29_EachArgumentInOnePlace ==
    \A p \in AllParsers(parser) :
        /\ \A i \in 1..Len(Declared(p)) :
              LET name == Declared(p)[i].k
                  tag == Declared(p)[i].v.argument.mx_group
              IN  IF tag = NoGroup
                  THEN DictHas(p.arguments, name) /\ GroupsHolding(p, name) = {}
                  ELSE /\ ~DictHas(p.arguments, name)
                       /\ Cardinality(GroupsHolding(p, name)) = 1
                       /\ \A g \in GroupsHolding(p, name) : p.mx_groups[g].id = tag.id
        /\ \A i, j \in 1..Len(p.mx_groups) :
              p.mx_groups[i].id = p.mx_groups[j].id => i = j
        /\ \A i \in 1..Len(p.mx_groups) :
              KeySeq(p.mx_groups[i].arguments) = DeclaredIn(p, p.mx_groups[i].id)
        /\ KeySeq(p.arguments) = DeclaredIn(p, NoGroup.id)
        /\ \A i \in 1..Len(Parser_apply(p)) :
              LET act == Parser_apply(p)[i]
              IN  \A g \in 1..Len(p.mx_groups) :
                      (\E m \in 1..Len(p.mx_groups[g].arguments) :
                          act \in SeqToSet(ArgumentActions(p.mx_groups[g].arguments[m].v,
                                                           p.mx_groups[g].arguments[m].k,
                                                           act.group)))
                      => act.group = p.mx_groups[g].id

\* two groups were made for alternating members, a flag outside them
C29_Witness ==
    /\ shape.name = "MxInterleavedArgs" /\ pc = "done"
    /\ Len(parser.mx_groups) = 2
    /\ KeySeq(parser.mx_groups[1].arguments) = <<"a", "c">>
    /\ KeySeq(parser.mx_groups[2].arguments) = <<"b">>
    /\ KeySeq(parser.arguments) = <<"d">>
    /\ Get(Result.attrs, "c") = True


\* C30: a dispatch registered with a dynamic-defaults mapping hands each
\* branch the sub-mapping stored under the dispatch's attribute name or under
\* the branch's own name, whatever those names are
C30_DefaultsForwardedByOwnKey ==
    pc = "registered" =>
        \A i \in 1..Len(parser.added) :
            parser.added[i].defaults
                \in {GetOrEmpty(shape.defaults, shape.name),
                     GetOrEmpty(shape.defaults, parser.added[i].name)}

====
